---- MODULE Spec2Model ----
(***************************************************************************)
(* A model of codex-session-manager: the session store (session-store.ts), *)
(* and the terminal engine that drives it (the key loop, the asynchronous  *)
(* store operations and the preview loader).                               *)
(*                                                                         *)
(* The file system is a map from paths to files.  A path is a directory    *)
(* (the flat archive directory, or one date bucket of the active tree) and *)
(* a file name.  Every await of the code is a step of its own, so that     *)
(* other operations and keys interleave exactly where the code yields.     *)
(***************************************************************************)
EXTENDS Integers, Sequences, FiniteSets, TLC

\* ------------------------------------------------------------------ bounds
\* Session files in the initial file system of the store harness.
MaxFiles == 2
\* setArchiveStatus calls the store harness keeps in flight at once.
MaxCalls == 2
\* setArchiveStatus calls the store harness makes in one run.
MaxStarted == 3

\* ------------------------------------------------------------- file system
None == "none"
Invalid == "invalid"
ARCH == "arch"
\* The date buckets sessionsDir/YYYY/MM/DD, oldest first.
Dates == {"d1", "d2"}
Dirs == Dates \cup {ARCH}
\* "v-d1": a name that embeds the valid date d1; "g": a name without the
\* date pattern; "bad": a name that matches the pattern with month 13;
\* ".jsonl": the name that is only the extension.
Names == {"v-d1", "g", "bad", ".jsonl"}
Paths == [dir : Dirs, name : Names]
NoPath == [dir |-> None, name |-> None]
\* The date "now": the modification time a written or copied file gets.
Now == "d2"

\* A string is a sequence of characters; Undefined is the value of a field
\* that is absent.
Undefined == <<"undefined">>
\* The same for a field that holds a list of strings.
NoTags == <<Undefined>>

\* A file: its identity (which session it holds), its modification time,
\* what its first line is (kind: "meta" a session_meta envelope with a
\* payload, "other" another JSON value that is not null, "null" the JSON
\* value null, "junk" no JSON, "empty" nothing),
\* the payload's timestamp (None: absent or unparseable), title, legacy
\* name, working directory and tags, whether the first line ends in "\r",
\* and the text after the first "\n" (Undefined: the file has no "\n").
Plain(id, ts, mt) ==
  [id |-> id, ts |-> ts, mt |-> mt, kind |-> "meta", title |-> Undefined,
   name |-> Undefined, cwd |-> Undefined, tags |-> NoTags, cr |-> FALSE,
   body |-> <<>>]

NoFile == [Plain(0, None, None) EXCEPT !.kind = None]
Exists(d, p) == d[p].id # 0

VARIABLES
  disk,     \* Paths -> file (NoFile where there is none)
  dirs,     \* the directories that exist
  xdev,     \* TRUE when the two trees are on different file systems (EXDEV)
  calls,    \* store harness: the setArchiveStatus calls in flight
  loaded,   \* store harness: the records of the last loadSessions
  started,  \* store harness: the number of calls made so far
  state,    \* the engine's state object
  ops,      \* the engine's store operations in flight
  loads,    \* the preview reads in flight, counted by path
  painted,  \* TRUE when the last render() showed the current state
  proc,     \* the process and its terminal
  keys      \* the number of keys handled so far

storeVars == <<disk, dirs, xdev>>
harnessVars == <<calls, loaded, started>>
uiVars == <<state, ops, loads, painted, proc, keys>>
vars == <<disk, dirs, xdev, calls, loaded, started,
          state, ops, loads, painted, proc, keys>>

\* ----------------------------------------------------------------- strings
Lower(c) == IF c = "X" THEN "x" ELSE c
toLowerCase(str) == [i \in DOMAIN str |-> Lower(str[i])]

RECURSIVE trim(_)
trim(str) ==
  IF str = <<>> THEN str
  ELSE IF Head(str) = " " THEN trim(Tail(str))
  ELSE IF str[Len(str)] = " " THEN trim(SubSeq(str, 1, Len(str) - 1))
  ELSE str

includes(str, part) ==
  \E i \in 1..(Len(str) + 1) :
    /\ i + Len(part) - 1 <= Len(str)
    /\ SubSeq(str, i, i + Len(part) - 1) = part

RECURSIVE join(_, _)
join(list, sep) ==
  IF list = <<>> THEN <<>>
  ELSE IF Len(list) = 1 THEN list[1]
  ELSE list[1] \o sep \o join(Tail(list), sep)

\* --------------------------------------------------------- date resolution
\* Date.parse of the timestamp field: a date, or null (None).
parseTimestamp(value) == IF value \in Dates THEN value ELSE None

\* The regular expression and new Date(...) of the embedded stamp: null when
\* the name does not match, otherwise the Date object, which is an Invalid
\* Date (and not null) when the digits denote no date.
parseDateFromFilename(fileName) ==
  CASE fileName = "v-d1" -> "d1"
    [] fileName = "bad" -> Invalid
    [] OTHER -> None

\* a || b || c over Date objects: null is falsy, every Date object (an
\* Invalid Date too) is truthy.
OrElse(a, b) == IF a # None THEN a ELSE b

formatDateLabel(date) == IF date = None \/ date = Invalid THEN None ELSE date

\* Date.getTime(): milliseconds, NaN for an Invalid Date.
getTime(date) ==
  CASE date = "d1" -> 1
    [] date = "d2" -> 2
    [] OTHER -> -1

NaN == -1

\* ------------------------------------------------------------ loadSessions
\* typeof value === "string" ? value.trim() : ""
TrimmedString(value) == IF value = Undefined THEN <<>> ELSE trim(value)

\* The title, else the legacy name; <<>>: undefined.
pickTitle(f) ==
  IF TrimmedString(f.title) # <<>> THEN TrimmedString(f.title)
  ELSE TrimmedString(f.name)

\* fileName.replace(/\.jsonl$/, ""): the file name without its extension.
Stem(fileName) ==
  CASE fileName = "g" -> <<"g">>
    [] fileName = "bad" -> <<"b">>
    [] fileName = ".jsonl" -> <<>>
    [] OTHER -> <<"v">>

\* path.basename: trailing separators dropped, then what follows the last
\* separator.
RECURSIVE basename(_)
basename(p) ==
  IF p = <<>> THEN <<>>
  ELSE IF p[Len(p)] = "/" THEN basename(SubSeq(p, 1, Len(p) - 1))
  ELSE IF \E i \in 1..Len(p) : p[i] = "/"
    THEN LET i == CHOOSE k \in 1..Len(p) :
                    p[k] = "/" /\ \A j \in (k + 1)..Len(p) : p[j] # "/"
         IN SubSeq(p, i + 1, Len(p))
  ELSE p

deriveDisplayName(f, fileName) ==
  IF pickTitle(f) # <<>> THEN pickTitle(f)
  ELSE IF TrimmedString(f.cwd) # <<>> THEN basename(TrimmedString(f.cwd))
  ELSE Stem(fileName)

\* uniqueTags comparing the tags as they are written.
RECURSIVE uniqueTags_CaseSensitive(_)
uniqueTags_CaseSensitive(tags) ==
  IF tags = <<>> THEN <<>>
  ELSE LET init == uniqueTags_CaseSensitive(SubSeq(tags, 1, Len(tags) - 1))
           tag == tags[Len(tags)]
       IN IF \E i \in 1..Len(init) : init[i] = tag
            THEN init
            ELSE Append(init, tag)

\* uniqueTags: the first of the tags that are equal ignoring case.
RECURSIVE uniqueTags(_)
uniqueTags(tags) ==
  IF tags = <<>> THEN <<>>
  ELSE LET init == uniqueTags(SubSeq(tags, 1, Len(tags) - 1))
           tag == tags[Len(tags)]
       IN IF \E i \in 1..Len(init) : toLowerCase(init[i]) = toLowerCase(tag)
            THEN init
            ELSE Append(init, tag)

\* tags.map((tag) => tag.trim()).filter(Boolean)
TrimAll(tags) ==
  LET trimmed == [i \in 1..Len(tags) |-> trim(tags[i])]
      NonEmpty(tag) == tag # <<>>
  IN SelectSeq(trimmed, NonEmpty)

\* normalizeTags of an array, whose items that are no strings (Undefined) are
\* left out, or of no value.
normalizeTags(value) ==
  LET IsString(item) == item # Undefined
  IN IF value = NoTags THEN <<>>
     ELSE uniqueTags(TrimAll(SelectSeq(value, IsString)))

parseSessionFile(filePath, archived, f) ==
  LET sortDate == OrElse(parseTimestamp(f.ts),
                    OrElse(parseDateFromFilename(filePath.name), f.mt))
  IN [ id |-> f.id,
       filePath |-> filePath,
       fileName |-> filePath.name,
       archived |-> archived,
       title |-> pickTitle(f),
       tags |-> normalizeTags(f.tags),
       displayName |-> deriveDisplayName(f, filePath.name),
       timestamp |-> f.ts,
       dateLabel |-> formatDateLabel(sortDate),
       sortKey |-> IF sortDate # None THEN getTime(sortDate) ELSE 0 ]

\* readdir order: the date buckets in order, names in order within each.
DirRank(d) == CASE d = "d1" -> 1 [] d = "d2" -> 2 [] OTHER -> 3
NameRank(n) ==
  CASE n = ".jsonl" -> 0 [] n = "bad" -> 1 [] n = "g" -> 2 [] OTHER -> 3
PathRank(p) == DirRank(p.dir) * 4 + NameRank(p.name)

RECURSIVE SortPaths(_)
SortPaths(S) ==
  IF S = {} THEN <<>>
  ELSE LET p == CHOOSE x \in S : \A y \in S : PathRank(x) <= PathRank(y)
       IN <<p>> \o SortPaths(S \ {p})

\* collectJsonlFiles(dir): the files below the active tree, or in the archive.
collectJsonlFiles(d, archived) ==
  SortPaths({p \in Paths : Exists(d, p) /\ ((p.dir = ARCH) <=> archived)})

\* parseSessionFile returns null unless the first line is a session_meta
\* envelope with a payload.
IsSession(f) == f.kind = "meta"

\* JSON.parse of the first line returns null: meta.type throws a TypeError,
\* outside the try of parseSessionFile, and loadSessions rejects.
ParseThrows(f) == f.kind = "null"

LoadRejects(d) == \E p \in Paths : Exists(d, p) /\ ParseThrows(d[p])

RECURSIVE ParseAll(_, _, _)
ParseAll(d, files, archived) ==
  IF files = <<>> THEN <<>>
  ELSE (IF IsSession(d[Head(files)])
          THEN <<parseSessionFile(Head(files), archived, d[Head(files)])>>
          ELSE <<>>)
         \o ParseAll(d, Tail(files), archived)

\* loadSessions with nothing else running: active records, then archived.
loadSessions(d) ==
  ParseAll(d, collectJsonlFiles(d, FALSE), FALSE)
    \o ParseAll(d, collectJsonlFiles(d, TRUE), TRUE)

Range(s) == {s[i] : i \in 1..Len(s)}

\* -------------------------------------------------------- setArchiveStatus
\* A call: where it stands (pc), its arguments, the destination it computed,
\* and how it ended (err = "" and ret the returned path, or err the error).
Idle == [pc |-> "idle"]

Done(c, path) == [c EXCEPT !.pc = "done", !.ret = path]
Throw(c, error) == [c EXCEPT !.pc = "done", !.err = error]

resolveActivePath(fileName, timestamp, fallbackTime) ==
  LET date == OrElse(parseTimestamp(timestamp),
                OrElse(parseDateFromFilename(fileName), fallbackTime))
      dateLabel == formatDateLabel(date)
  IN IF dateLabel = None THEN NoPath
     ELSE [dir |-> dateLabel, name |-> fileName]

\* setArchiveStatus without the early return of an already reached target.
setArchiveStatus_NoEarlyReturn(session, targetArchived) ==
  LET c == [pc |-> "start", session |-> session, target |-> targetArchived,
            dest |-> NoPath, ret |-> NoPath, err |-> ""]
  IN IF targetArchived
       THEN [c EXCEPT !.pc = "mkdir",
                      !.dest = [dir |-> ARCH, name |-> session.fileName]]
       ELSE [c EXCEPT !.pc = "stat"]

\* The call up to its first await.
setArchiveStatus(session, targetArchived) ==
  LET c == [pc |-> "start", session |-> session, target |-> targetArchived,
            dest |-> NoPath, ret |-> NoPath, err |-> ""]
  IN IF session.archived = targetArchived THEN Done(c, session.filePath)
     ELSE IF targetArchived
       THEN [c EXCEPT !.pc = "mkdir",
                      !.dest = [dir |-> ARCH, name |-> session.fileName]]
       ELSE [c EXCEPT !.pc = "stat"]

Step(c, d, ds) == [call |-> c, disk |-> d, dirs |-> ds]

\* fs.stat(session.filePath), then resolveActivePath.
StatStep(c, d, ds) ==
  IF ~Exists(d, c.session.filePath) THEN Step(Throw(c, "ENOENT"), d, ds)
  ELSE LET destination == resolveActivePath(c.session.fileName,
                            c.session.timestamp, d[c.session.filePath].mt)
       IN IF destination = NoPath
            THEN Step(Throw(c, "Unable to determine session date."), d, ds)
            ELSE Step([c EXCEPT !.pc = "mkdir", !.dest = destination], d, ds)

\* fs.mkdir(dirname(destination), {recursive: true})
MkdirStep(c, d, ds) ==
  Step([c EXCEPT !.pc = "access"], d, ds \cup {c.dest.dir})

\* The existence check left out: the move follows at once.
AccessStep_NoCheck(c, d, ds) == Step([c EXCEPT !.pc = "rename"], d, ds)

\* fs.access(destination): the call throws when it succeeds.
AccessStep(c, d, ds) ==
  IF Exists(d, c.dest) THEN Step(Throw(c, "already exists"), d, ds)
  ELSE Step([c EXCEPT !.pc = "rename"], d, ds)

\* A rename that returns without an error when the source is gone.
RenameStep_MissingSourceOk(c, d, ds) ==
  LET src == c.session.filePath
  IN IF ~Exists(d, src) \/ c.dest.dir \notin ds THEN Step(Done(c, c.dest), d, ds)
     ELSE Step(Done(c, c.dest),
               [d EXCEPT ![c.dest] = d[src], ![src] = NoFile], ds)

\* moveFile: fs.rename, which replaces an existing destination.
RenameStep(c, d, ds) ==
  LET src == c.session.filePath
  IN IF ~Exists(d, src) \/ c.dest.dir \notin ds
       THEN Step(Throw(c, "ENOENT"), d, ds)
     ELSE IF xdev THEN Step([c EXCEPT !.pc = "copy"], d, ds)
     ELSE Step(Done(c, c.dest),
               [d EXCEPT ![c.dest] = d[src], ![src] = NoFile], ds)

\* moveFile after EXDEV: fs.copyFile, which replaces an existing destination.
CopyStep(c, d, ds) ==
  LET src == c.session.filePath
  IN IF ~Exists(d, src) \/ c.dest.dir \notin ds
       THEN Step(Throw(c, "ENOENT"), d, ds)
     ELSE Step([c EXCEPT !.pc = "unlink"],
               [d EXCEPT ![c.dest] = [d[src] EXCEPT !.mt = Now]], ds)

\* moveFile after EXDEV: fs.unlink(source).
UnlinkStep(c, d, ds) ==
  LET src == c.session.filePath
  IN IF ~Exists(d, src) THEN Step(Throw(c, "ENOENT"), d, ds)
     ELSE Step(Done(c, c.dest), [d EXCEPT ![src] = NoFile], ds)

Running(c) == c.pc \notin {"idle", "done"}

\* One await of a running call.
SasStep(c, d, ds) ==
  CASE c.pc = "stat" -> StatStep(c, d, ds)
    [] c.pc = "mkdir" -> MkdirStep(c, d, ds)
    [] c.pc = "access" -> AccessStep(c, d, ds)
    [] c.pc = "rename" -> RenameStep(c, d, ds)
    [] c.pc = "copy" -> CopyStep(c, d, ds)
    [] c.pc = "unlink" -> UnlinkStep(c, d, ds)

\* ---------------------------------------------------- updateSessionMetadata
\* The content of a file as text: a sequence of characters, in which the
\* JSON value of the first line is one character ("{meta}": a session_meta
\* envelope with a payload, "{other}": another JSON value).
FirstLine(f) ==
  CASE f.kind = "meta" -> <<"{meta}">>
    [] f.kind = "other" -> <<"{other}">>
    [] f.kind = "null" -> <<"null">>
    [] f.kind = "junk" -> <<"junk">>
    [] OTHER -> <<>>

Encode(f) ==
  FirstLine(f) \o (IF f.cr THEN <<"\r">> ELSE <<>>)
    \o (IF f.body = Undefined THEN <<>> ELSE <<"\n">> \o f.body)

\* The fields of the payload object of the first line.
Payload(f) ==
  [ts |-> f.ts, title |-> f.title, name |-> f.name, cwd |-> f.cwd,
   tags |-> f.tags]

\* content.split("\n")
RECURSIVE split(_, _)
split(text, sep) ==
  IF \E i \in 1..Len(text) : text[i] = sep
    THEN LET i == CHOOSE k \in 1..Len(text) :
                    text[k] = sep /\ \A j \in 1..(k - 1) : text[j] # sep
         IN <<SubSeq(text, 1, i - 1)>> \o split(SubSeq(text, i + 1, Len(text)), sep)
    ELSE <<text>>

\* JSON.parse of a line: white space around the value is skipped; "error"
\* when the line holds no JSON value.
RECURSIVE SkipSpace(_)
SkipSpace(line) ==
  IF line = <<>> THEN line
  ELSE IF Head(line) \in {" ", "\r"} THEN SkipSpace(Tail(line))
  ELSE IF line[Len(line)] \in {" ", "\r"}
    THEN SkipSpace(SubSeq(line, 1, Len(line) - 1))
  ELSE line

JSONparse(line) ==
  CASE SkipSpace(line) = <<"{meta}">> -> "meta"
    [] SkipSpace(line) = <<"{other}">> -> "other"
    [] SkipSpace(line) = <<"null">> -> "null"
    [] OTHER -> "error"

\* The file a text is, when it is stored with the identity id at time mt and
\* its first line holds the given payload.
Decode(text, payload, id, mt) ==
  LET lines == split(text, "\n")
      first == lines[1]
      kind == IF first = <<>> \/ first = <<"\r">> THEN "empty"
              ELSE IF JSONparse(first) = "error" THEN "junk"
              ELSE JSONparse(first)
  IN [ id |-> id, mt |-> mt, kind |-> kind,
       ts |-> payload.ts, title |-> payload.title, name |-> payload.name,
       cwd |-> payload.cwd, tags |-> payload.tags,
       cr |-> first # <<>> /\ first[Len(first)] = "\r",
       body |-> IF Len(lines) = 1 THEN Undefined
                ELSE SubSeq(text, Len(first) + 2, Len(text)) ]

\* The payload with the title fields as the update leaves them, but the
\* legacy name untouched.
ApplyUpdates_TitleOnly(payload, updates) ==
  LET cleaned == trim(updates.title)
      cleanedTags == uniqueTags(TrimAll(updates.tags))
      titled == IF updates.title = Undefined THEN payload
                ELSE IF cleaned # <<>>
                  THEN [payload EXCEPT !.title = cleaned]
                ELSE [payload EXCEPT !.title = Undefined]
  IN IF updates.tags = NoTags THEN titled
     ELSE IF cleanedTags # <<>> THEN [titled EXCEPT !.tags = cleanedTags]
     ELSE [titled EXCEPT !.tags = NoTags]

\* The payload after the update is applied to it.
ApplyUpdates(payload, updates) ==
  LET cleaned == trim(updates.title)
      cleanedTags == uniqueTags(TrimAll(updates.tags))
      titled == IF updates.title = Undefined THEN payload
                ELSE IF cleaned # <<>>
                  THEN [payload EXCEPT !.title = cleaned, !.name = cleaned]
                ELSE [payload EXCEPT !.title = Undefined, !.name = Undefined]
  IN IF updates.tags = NoTags THEN titled
     ELSE IF cleanedTags # <<>> THEN [titled EXCEPT !.tags = cleanedTags]
     ELSE [titled EXCEPT !.tags = NoTags]

\* The lines written back, the empty ones left out.
Rewrite_NoEmptyLines(lines, first) ==
  LET NonEmpty(line) == line # <<>>
  IN join(SelectSeq([lines EXCEPT ![1] = first], NonEmpty), <<"\n">>)

\* lines[0] = JSON.stringify(meta); lines.join("\n")
Rewrite(lines, first) == join([lines EXCEPT ![1] = first], <<"\n">>)

\* The call up to its first await.
updateSessionMetadata(filePath, updates) ==
  [pc |-> "readFile", filePath |-> filePath, updates |-> updates,
   text |-> <<>>, payload |-> Payload(NoFile), id |-> 0,
   ret |-> NoPath, err |-> ""]

\* fs.readFile completes; the code runs up to fs.writeFile.
ReadFileStep(c, d, ds) ==
  IF ~Exists(d, c.filePath) THEN Step(Throw(c, "ENOENT"), d, ds)
  ELSE LET f == d[c.filePath]
           lines == split(Encode(f), "\n")
       IN IF lines[1] = <<>>
            THEN Step(Throw(c, "Session file is empty."), d, ds)
          ELSE IF JSONparse(lines[1]) = "error"
            THEN Step(Throw(c, "Failed to parse session metadata."), d, ds)
          ELSE IF JSONparse(lines[1]) = "null"
            THEN Step(Throw(c, "TypeError"), d, ds)
          ELSE IF JSONparse(lines[1]) # "meta"
            THEN Step(Throw(c, "First line is not session metadata."), d, ds)
          ELSE Step([c EXCEPT !.pc = "writeFile",
                              !.text = Rewrite(lines, <<"{meta}">>),
                              !.payload = ApplyUpdates(Payload(f), c.updates),
                              !.id = f.id],
                    d, ds)

\* fs.writeFile completes: the file is replaced, or created where it is gone.
WriteFileStep(c, d, ds) ==
  IF c.filePath.dir \notin ds THEN Step(Throw(c, "ENOENT"), d, ds)
  ELSE Step([c EXCEPT !.pc = "done"],
            [d EXCEPT ![c.filePath] = Decode(c.text, c.payload, c.id, Now)],
            ds)

\* One await of a running call.
UsmStep(c, d, ds) ==
  CASE c.pc = "readFile" -> ReadFileStep(c, d, ds)
    [] c.pc = "writeFile" -> WriteFileStep(c, d, ds)

\* ------------------------------------------------------------ store harness
\* The store called directly, as the tests do: load, then setArchiveStatus on
\* loaded records, up to MaxCalls calls in flight at once.
CallIds == 1..MaxCalls

\* A timestamp field that differs from every name's date, or none; with
\* none, either modification time.
FileAttrs ==
  {[ts |-> None, mt |-> "d1"], [ts |-> None, mt |-> "d2"],
   [ts |-> "d2", mt |-> "d1"]}

\* The initial file systems: up to MaxFiles session files of one name, in
\* different directories (calls on files of different names touch disjoint
\* paths).
Placements ==
  {S \in SUBSET (1..MaxFiles) : \A i \in S : \A j \in 1..i : j \in S}

InitDisks ==
  UNION {
    { [p \in Paths |->
         IF \E i \in S : at[i] = p
           THEN LET i == CHOOSE i \in S : at[i] = p
                IN Plain(i, attr[i].ts, attr[i].mt)
           ELSE NoFile] :
        at \in {f \in [S -> Paths] :
                  /\ \A i, j \in S : i < j => PathRank(f[i]) < PathRank(f[j])
                  /\ \A i, j \in S : f[i].name = f[j].name},
        attr \in [S -> FileAttrs] } :
    S \in Placements }

DirsOf(d) == {p.dir : p \in {q \in Paths : Exists(d, q)}}

StoreInit ==
  /\ disk \in InitDisks
  /\ dirs = DirsOf(disk)
  /\ xdev \in BOOLEAN
  /\ calls = [i \in CallIds |-> Idle]
  /\ loaded = <<>>
  /\ started = 0
  /\ state = <<>> /\ ops = <<>> /\ loads = <<>>
  /\ painted = FALSE /\ proc = <<>> /\ keys = 0

\* const sessions = await loadSessions(paths), with no call in flight.
Load ==
  /\ \A i \in CallIds : ~Running(calls[i])
  /\ ~LoadRejects(disk)
  /\ loaded' = loadSessions(disk)
  /\ loaded' # loaded
  /\ UNCHANGED <<disk, dirs, xdev, calls, started, uiVars>>

\* setArchiveStatus(session, targetArchived, paths) on a loaded record.
Call(i) ==
  /\ calls[i] = Idle
  /\ started < MaxStarted
  /\ started' = started + 1
  /\ \A j \in 1..(i - 1) : calls[j] # Idle
  /\ \E session \in Range(loaded), targetArchived \in BOOLEAN :
       calls' = [calls EXCEPT ![i] = setArchiveStatus(session, targetArchived)]
  /\ UNCHANGED <<disk, dirs, xdev, loaded, uiVars>>

\* One await of call i completes.
CallStep(i) ==
  /\ Running(calls[i])
  /\ LET r == SasStep(calls[i], disk, dirs)
     IN /\ calls' = [calls EXCEPT ![i] = r.call]
        /\ disk' = r.disk
        /\ dirs' = r.dirs
  /\ UNCHANGED <<xdev, loaded, started, uiVars>>

\* The caller takes the result of call i.
Return(i) ==
  /\ calls[i].pc = "done"
  /\ calls' = [calls EXCEPT ![i] = Idle]
  /\ UNCHANGED <<disk, dirs, xdev, loaded, started, uiVars>>

StoreNext ==
  \/ Load
  \/ \E i \in CallIds : Call(i)
  \/ \E i \in CallIds : CallStep(i)
  \/ \E i \in CallIds : Return(i)

SpecStore == StoreInit /\ [][StoreNext]_vars

\* ------------------------------------------------------- claims on the store
FilesOn(d) == {d[p] : p \in {q \in Paths : Exists(d, q)}}
Content(f) == [f EXCEPT !.mt = None]
ContentsOn(d) == {Content(f) : f \in FilesOn(d)}

\* C3: no archive or restore ever overwrites a file: whatever calls are in
\* flight together, every session file that is on disk before a step is on
\* disk after it, with its own content, at its old or its new path.
C3_NoFileLost == [][ContentsOn(disk) \subseteq ContentsOn(disk')]_vars

\* C4: a call that reaches its existence check with the destination taken
\* ends there with the error 'already exists', and no step of a call before
\* its move touches a file: source and destination stay as they are.
C4_ExistingDestinationFails ==
  [][\A i \in CallIds :
       /\ (calls[i].pc = "access" /\ Exists(disk, calls[i].dest)
            /\ calls'[i] # calls[i])
           => (calls'[i].pc = "done" /\ calls'[i].err = "already exists"
               /\ disk' = disk)
       /\ (calls[i].pc \in {"stat", "mkdir", "access"} /\ calls'[i] # calls[i])
           => disk' = disk
       /\ calls[i].pc = "done" => calls'[i] \in {calls[i], Idle}]_vars

\* A restore has failed on a taken date bucket; both files are in place.
C4_Witness ==
  \E i \in CallIds :
    /\ calls[i].pc = "done" /\ calls[i].err = "already exists"
    /\ ~calls[i].target
    /\ calls[i].dest.dir \in Dates
    /\ Exists(disk, calls[i].session.filePath)
    /\ Exists(disk, calls[i].dest)

\* C5: a call whose target is the record's own archived flag returns the
\* record's path at once and changes neither a file nor a directory.
C5_SameStateIsNoOp ==
  [][\A i \in CallIds :
       (calls[i] = Idle /\ calls'[i] # Idle
        /\ calls'[i].session.archived = calls'[i].target)
         => /\ calls'[i].pc = "done"
            /\ calls'[i].err = ""
            /\ calls'[i].ret = calls'[i].session.filePath
            /\ disk' = disk
            /\ dirs' = dirs]_vars

\* An archived record was asked to be archived and its path came back.
C5_Witness ==
  \E i \in CallIds :
    /\ calls[i].pc = "done"
    /\ calls[i].target /\ calls[i].session.archived
    /\ calls[i].ret = calls[i].session.filePath
    /\ ARCH \in dirs

\* The chain as the specification states it: the first source that yields a
\* valid date.
IsDate(x) == x \in Dates
ValidChain(timestamp, fileName, mtime) ==
  IF IsDate(parseTimestamp(timestamp)) THEN parseTimestamp(timestamp)
  ELSE IF IsDate(parseDateFromFilename(fileName))
    THEN parseDateFromFilename(fileName)
  ELSE mtime

\* C6: restoring a freshly loaded archived record picks the destination
\* sessionsDir/<date>/fileName, the date being the first valid one of the
\* timestamp field, the date in the file name and the file's mtime; that
\* bucket is the record's date label.
C6_RestoreFollowsDateChain ==
  [][\A i \in CallIds :
       LET c == calls[i]
           src == c.session.filePath
       IN (c.pc = "stat" /\ calls'[i] # c /\ Exists(disk, src)
           /\ c.session = parseSessionFile(src, TRUE, disk[src]))
            => /\ calls'[i].pc = "mkdir"
               /\ calls'[i].dest =
                    [dir |-> ValidChain(disk[src].ts, src.name, disk[src].mt),
                     name |-> src.name]
               /\ calls'[i].dest.dir = c.session.dateLabel]_vars

\* C17: every loaded record has a defined number as its sort key: the time of
\* the first of timestamp field, file-name date and mtime that is a valid
\* date; a source that denotes no valid date falls through to the next.
C17_SortKeyFromValidChain ==
  [][loaded' # loaded =>
       \A i \in DOMAIN loaded' :
         LET r == loaded'[i]
             f == disk[r.filePath]
         IN /\ r.sortKey # NaN
            /\ r.sortKey = getTime(ValidChain(f.ts, r.fileName, f.mt))]_vars


\* ------------------------------------------------------------------ bounds
\* updateSessionMetadata calls made in one run of the metadata harness.
MaxUpdates == 1

\* ---------------------------------------------------------- metadata harness
\* The store called directly, as the tests do: one session file is written,
\* then loadSessions and updateSessionMetadata are called on it, one call at
\* a time.
Titles == {Undefined, <<" ">>, <<"a">>}
LegacyNames == {Undefined, <<"b">>}
Cwds == {Undefined, <<"/">>, <<"/", "p">>}
TagLists == {NoTags, << <<"t">> >>}
Bodies == {Undefined, <<>>, <<"m", "\n">>, <<"\r", "\n", "m">>}
MetaPaths == {[dir |-> "d1", name |-> "g"], [dir |-> ARCH, name |-> ".jsonl"]}

\* The files written: every payload for a session_meta first line, and the
\* first lines that are no session_meta.
MetaFiles ==
  { [Plain(1, None, "d1") EXCEPT !.title = t, !.name = n, !.cwd = c,
                                 !.tags = g, !.cr = cr, !.body = b] :
      t \in Titles, n \in LegacyNames, c \in Cwds, g \in TagLists,
      cr \in BOOLEAN, b \in Bodies }
    \cup
  { [Plain(1, None, "d1") EXCEPT !.kind = k, !.cr = cr, !.body = b] :
      k \in {"other", "null", "junk", "empty"}, cr \in BOOLEAN, b \in Bodies }

\* The updates of a call: each field given or left out.
Updates ==
  [title : {Undefined, <<>>, <<" ">>, <<" ", "X">>},
   tags : {NoTags, <<>>, << <<" ">> >>, << <<"x", " ">>, <<"X">> >>}]

MetaInit ==
  /\ \E p \in MetaPaths, f \in MetaFiles :
       disk = [q \in Paths |-> IF q = p THEN f ELSE NoFile]
  /\ dirs = DirsOf(disk)
  /\ xdev = FALSE
  /\ calls = [i \in CallIds |-> Idle]
  /\ loaded = <<>>
  /\ started = 0
  /\ state = <<>> /\ ops = <<>> /\ loads = <<>>
  /\ painted = FALSE /\ proc = <<>> /\ keys = 0

\* await updateSessionMetadata(filePath, updates) on the file written.
Update(i) ==
  /\ \A j \in CallIds : calls[j] = Idle
  /\ i = 1
  /\ started < MaxUpdates
  /\ started' = started + 1
  /\ \E filePath \in MetaPaths, updates \in Updates :
       /\ Exists(disk, filePath)
       /\ calls' = [calls EXCEPT ![i] = updateSessionMetadata(filePath, updates)]
  /\ UNCHANGED <<disk, dirs, xdev, loaded, uiVars>>

\* One await of call i completes.
UpdateStep(i) ==
  /\ Running(calls[i])
  /\ LET r == UsmStep(calls[i], disk, dirs)
     IN /\ calls' = [calls EXCEPT ![i] = r.call]
        /\ disk' = r.disk
        /\ dirs' = r.dirs
  /\ UNCHANGED <<xdev, loaded, started, uiVars>>

\* await loadSessions(paths) rejects: the caller holds the error.
LoadFails(i) ==
  /\ \A j \in CallIds : calls[j] = Idle
  /\ i = 1
  /\ LoadRejects(disk)
  /\ calls' = [calls EXCEPT ![i] =
                 Throw(updateSessionMetadata(NoPath, [title |-> Undefined,
                                                      tags |-> NoTags]),
                       "TypeError")]
  /\ UNCHANGED <<disk, dirs, xdev, loaded, started, uiVars>>

MetaNext ==
  \/ Load
  \/ \E i \in CallIds : LoadFails(i)
  \/ \E i \in CallIds : Update(i)
  \/ \E i \in CallIds : UpdateStep(i)
  \/ \E i \in CallIds : Return(i)

SpecMeta == MetaInit /\ [][MetaNext]_vars

\* ------------------------------------------------- claims on the metadata
\* C18: every loaded record has a display name that is not empty: the trimmed
\* title (or legacy name) when there is one, else the last component of the
\* working directory, else the file name without its extension.
C18_DisplayNameNotEmpty ==
  \A i \in DOMAIN loaded : loaded[i].displayName # <<>>

\* The write of call i completes in this step.
Written(i) ==
  calls[i].pc = "writeFile" /\ calls'[i].pc = "done" /\ calls'[i].err = ""

\* Cleaning as the specification states it: each tag trimmed, the empty ones
\* dropped, and of the tags equal ignoring case the first one kept.
RECURSIVE Cleaned(_, _)
Cleaned(tags, seen) ==
  IF tags = <<>> THEN <<>>
  ELSE LET tag == trim(Head(tags))
       IN IF tag = <<>> \/ toLowerCase(tag) \in seen
            THEN Cleaned(Tail(tags), seen)
            ELSE <<tag>> \o Cleaned(Tail(tags), seen \cup {toLowerCase(tag)})

\* C19: an update followed by a reload round-trips: a title is stored
\* trimmed in both title and name and is the record's title; an empty title
\* removes both fields; the tags are stored trimmed and without duplicates
\* ignoring case, and an empty cleaned list removes the field; a field the
\* update does not name keeps its value.
C19_UpdateRoundTrips ==
  [][\A i \in CallIds :
       Written(i) =>
         LET u == calls[i].updates
             p == calls[i].filePath
             old == disk[p]
             new == disk'[p]
             rec == parseSessionFile(p, p.dir = ARCH, new)
         IN /\ IsSession(new)
            /\ (u.title # Undefined /\ trim(u.title) # <<>>)
                 => /\ new.title = trim(u.title)
                    /\ new.name = trim(u.title)
                    /\ rec.title = trim(u.title)
                    /\ rec.displayName = trim(u.title)
            /\ (u.title # Undefined /\ trim(u.title) = <<>>)
                 => /\ new.title = Undefined
                    /\ new.name = Undefined
                    /\ rec.title = <<>>
            /\ u.title = Undefined
                 => (new.title = old.title /\ new.name = old.name)
            /\ u.tags # NoTags
                 => /\ rec.tags = Cleaned(u.tags, {})
                    /\ new.tags = IF Cleaned(u.tags, {}) = <<>> THEN NoTags
                                  ELSE Cleaned(u.tags, {})
            /\ u.tags = NoTags => new.tags = old.tags
            /\ new.cwd = old.cwd
            /\ new.ts = old.ts]_vars

\* A title with white space around it and two tags equal ignoring case were
\* written, and the reload shows the trimmed title and the first tag.
C19_Witness ==
  \E i \in CallIds :
    /\ calls[i].pc = "done" /\ calls[i].err = ""
    /\ calls[i].updates = [title |-> <<" ", "X">>,
                           tags |-> << <<"x", " ">>, <<"X">> >>]
    /\ Len(loaded) = 1
    /\ loaded[1].title = <<"X">>
    /\ loaded[1].tags = << <<"x">> >>
    /\ disk[loaded[1].filePath].name = <<"X">>

\* C20: an update changes only the first line: the file has as many lines
\* after it as before, and every line after the first is what it was.
C20_OnlyFirstLineChanges ==
  [][\A i \in CallIds :
       Written(i) =>
         LET before == split(Encode(disk[calls[i].filePath]), "\n")
             after == split(Encode(disk'[calls[i].filePath]), "\n")
         IN /\ Len(after) = Len(before)
            /\ \A k \in 2..Len(before) : after[k] = before[k]]_vars

\* A file of three lines, the second one a lone "\r", was given another
\* first line.
C20_Witness ==
  \E i \in CallIds :
    /\ calls[i].pc = "done" /\ calls[i].err = ""
    /\ LET f == disk[calls[i].filePath]
       IN /\ f.body = <<"\r", "\n", "m">>
          /\ f.title = <<"X">>
          /\ Len(split(Encode(f), "\n")) = 3

\* The errors updateSessionMetadata words itself.
Descriptive ==
  {"Session file is empty.", "Failed to parse session metadata.",
   "First line is not session metadata."}

\* A load ends with an error in this step.
LoadRejected(i) ==
  calls[i] = Idle /\ calls'[i].pc = "done" /\ calls'[i].filePath = NoPath

\* C21: an update of a file whose first line is empty, is no JSON or is no
\* session_meta envelope with a payload ends with one of the descriptive
\* errors and leaves the file as it is; a load with such a file on disk ends
\* without an error and returns no record of it.
C21_InvalidFirstLine ==
  [][\A i \in CallIds :
       /\ (calls[i].pc = "readFile" /\ calls'[i] # calls[i]
            /\ ~IsSession(disk[calls[i].filePath]))
           => /\ calls'[i].pc = "done"
              /\ calls'[i].err \in Descriptive
              /\ disk' = disk
       /\ ~LoadRejected(i)
       /\ loaded' # loaded
           => \A k \in DOMAIN loaded' : IsSession(disk[loaded'[k].filePath])]_vars

\* ================================================================ the engine
\* ------------------------------------------------------------------ bounds
\* Store operations (archive toggles, the startup refresh) in flight at once.
MaxOps == 2
\* Preview reads in flight at once.
MaxLoads == 2
\* Keys handled in one run.
MaxKeys == 4
\* Key presses in one run with text entry.
MaxData == 3

\* ------------------------------------------------------- filter and sort
\* filterSessions matching the display name only.
filterSessions_NamesOnly(sessions, query, archiveFilter) ==
  LET trimmed == toLowerCase(trim(query))
      Keep(session) ==
        IF archiveFilter = "archived" /\ ~session.archived THEN FALSE
        ELSE IF archiveFilter = "active" /\ session.archived THEN FALSE
        ELSE IF trimmed = <<>> THEN TRUE
        ELSE includes(toLowerCase(session.displayName), trimmed)
  IN SelectSeq(sessions, Keep)

filterSessions(sessions, query, archiveFilter) ==
  LET trimmed == toLowerCase(trim(query))
      Keep(session) ==
        IF archiveFilter = "archived" /\ ~session.archived THEN FALSE
        ELSE IF archiveFilter = "active" /\ session.archived THEN FALSE
        ELSE IF trimmed = <<>> THEN TRUE
        ELSE \/ includes(toLowerCase(session.displayName), trimmed)
             \/ includes(toLowerCase(join(session.tags, <<" ">>)), trimmed)
  IN SelectSeq(sessions, Keep)

\* a.sortKey - b.sortKey, where a NaN makes the difference NaN, which
\* Array.prototype.sort takes as +0.
Compare(a, b) == IF a = NaN \/ b = NaN THEN 0 ELSE a - b

\* The stable insertion of x into the sorted list.
RECURSIVE Insert(_, _, _)
Insert(sorted, x, order) ==
  IF sorted = <<>> THEN <<x>>
  ELSE LET last == sorted[Len(sorted)]
           diff == IF order = "asc" THEN Compare(last.sortKey, x.sortKey)
                   ELSE Compare(x.sortKey, last.sortKey)
       IN IF diff <= 0 THEN Append(sorted, x)
          ELSE Append(Insert(SubSeq(sorted, 1, Len(sorted) - 1), x, order), last)

RECURSIVE SortFrom(_, _, _)
SortFrom(sorted, rest, order) ==
  IF rest = <<>> THEN sorted
  ELSE SortFrom(Insert(sorted, Head(rest), order), Tail(rest), order)

sortSessionsByDate(sessions, order) == SortFrom(<<>>, sessions, order)

Max(a, b) == IF a >= b THEN a ELSE b
Min(a, b) == IF a <= b THEN a ELSE b

\* -------------------------------------------------------- the state object
\* A status line: a text, or the bulk summary with its three counts.
Status(text) == [text |-> text, archived |-> 0, restored |-> 0, failed |-> 0]
Summary(a, r, f) ==
  [text |-> "Toggle selected", archived |-> a, restored |-> r, failed |-> f]

\* detailCache.get(path): no entry, null, or the preview pair of a file.
NoEntry == -1
NullPreview == 0

NoInput == [kind |-> None]

InitState ==
  [ sessions |-> <<>>,
    filtered |-> <<>>,
    searchQuery |-> <<>>,
    archiveFilter |-> "active",
    selectedIndex |-> 0,
    statusMessage |-> Status(""),
    inputState |-> NoInput,
    selectedPaths |-> {},
    showDetails |-> TRUE,
    showHelp |-> FALSE,
    sortOrder |-> "desc",
    detailCache |-> [p \in Paths |-> NoEntry],
    detailState |-> [filePath |-> NoPath, loading |-> FALSE] ]

setStatus(st, message) == [st EXCEPT !.statusMessage = message]

\* applyFilters without the clamp of selectedIndex.
applyFilters_NoClamp(st) ==
  LET filtered == sortSessionsByDate(
                    filterSessions(st.sessions, st.searchQuery, st.archiveFilter),
                    st.sortOrder)
  IN [st EXCEPT !.filtered = filtered]

applyFilters(st) ==
  LET filtered == sortSessionsByDate(
                    filterSessions(st.sessions, st.searchQuery, st.archiveFilter),
                    st.sortOrder)
  IN [st EXCEPT !.filtered = filtered,
                !.selectedIndex =
                   IF st.selectedIndex >= Len(filtered)
                     THEN Max(0, Len(filtered) - 1)
                     ELSE st.selectedIndex]

\* The selection left as it is.
pruneSelection_Keep(st) == st

pruneSelection(st) ==
  LET valid == {st.sessions[i].filePath : i \in 1..Len(st.sessions)}
  IN [st EXCEPT !.selectedPaths = st.selectedPaths \cap valid]

\* refreshSessions after its await: the loaded list is installed.  (The tag
\* index of line 426 is derived from the list and read by the tags editor.)
refreshSessions(st, sessions) ==
  applyFilters(pruneSelection([st EXCEPT !.sessions = sessions]))

NoSession == [filePath |-> NoPath]

currentSession(st) ==
  IF Len(st.filtered) = 0 THEN NoSession
  ELSE IF st.selectedIndex + 1 \in DOMAIN st.filtered
    THEN st.filtered[st.selectedIndex + 1]
  ELSE NoSession

toggleSelection(st, session) ==
  IF session.filePath \in st.selectedPaths
    THEN [st EXCEPT !.selectedPaths = @ \ {session.filePath}]
    ELSE [st EXCEPT !.selectedPaths = @ \cup {session.filePath}]

VisiblePaths(st) == {st.filtered[i].filePath : i \in 1..Len(st.filtered)}

selectAllVisible(st) ==
  [st EXCEPT !.selectedPaths = @ \cup VisiblePaths(st)]

\* The selection replaced by the visible records that were not selected.
invertSelectionVisible_DropHidden(st) ==
  [st EXCEPT !.selectedPaths = VisiblePaths(st) \ @]

\* toggleSelection of every visible record.
invertSelectionVisible(st) ==
  [st EXCEPT !.selectedPaths =
     (@ \ VisiblePaths(st)) \cup (VisiblePaths(st) \ @)]

clearSelection(st) == [st EXCEPT !.selectedPaths = {}]

\* The records of the selected paths that are in the session list.
selectedSessions(st) ==
  {st.sessions[i] : i \in {j \in 1..Len(st.sessions) :
                             st.sessions[j].filePath \in st.selectedPaths}}

\* toggleArchiveFilter between active and archived only.
toggleArchiveFilter_TwoWay(st) ==
  applyFilters([st EXCEPT !.archiveFilter =
     IF @ = "active" THEN "archived" ELSE "active"])

toggleArchiveFilter(st) ==
  applyFilters([st EXCEPT !.archiveFilter =
     IF @ = "all" THEN "active"
     ELSE IF @ = "active" THEN "archived"
     ELSE "all"])

\* The order flipped, the list left as it was.
toggleSortOrder_NoFilter(st) ==
  [st EXCEPT !.sortOrder = IF @ = "desc" THEN "asc" ELSE "desc"]

toggleSortOrder(st) ==
  applyFilters([st EXCEPT !.sortOrder = IF @ = "desc" THEN "asc" ELSE "desc"])

toggleDetails(st) == [st EXCEPT !.showDetails = ~@]

toggleHelp(st) == [st EXCEPT !.showHelp = ~@]

\* maybeLoadDetails: the state it leaves, and the path whose preview it
\* starts to read (NoPath: none).
maybeLoadDetails(st) ==
  LET session == currentSession(st)
      cached == st.detailCache[session.filePath] # NoEntry
  IN IF ~st.showDetails \/ session = NoSession
       THEN [state |-> [st EXCEPT !.detailState =
                          [filePath |-> NoPath, loading |-> FALSE]],
             read |-> NoPath]
     ELSE IF st.detailState.filePath = session.filePath /\ cached
       THEN [state |-> st, read |-> NoPath]
     ELSE [state |-> [st EXCEPT !.detailState =
                        [filePath |-> session.filePath, loading |-> ~cached]],
           read |-> IF cached THEN NoPath ELSE session.filePath]

\* ------------------------------------------------------------ loadSessions
\* A scan in progress: the two directory listings (Promise.all, either may
\* come first), then one file parsed per step, in order.
NewScan ==
  [ gotActive |-> FALSE, gotArchived |-> FALSE,
    active |-> <<>>, archived |-> <<>>,
    files |-> <<>>, sessions |-> <<>>, error |-> "" ]

Tagged(paths, archived) ==
  [i \in DOMAIN paths |-> [path |-> paths[i], archived |-> archived]]

\* Both listings are in: the files to parse, active first.
Listed(scan) ==
  IF scan.gotActive /\ scan.gotArchived
    THEN [scan EXCEPT !.files = Tagged(scan.active, FALSE)
                                  \o Tagged(scan.archived, TRUE)]
    ELSE scan

ListActiveStep(scan, d) ==
  Listed([scan EXCEPT !.gotActive = TRUE,
                      !.active = collectJsonlFiles(d, FALSE)])

ListArchivedStep(scan, d) ==
  Listed([scan EXCEPT !.gotArchived = TRUE,
                      !.archived = collectJsonlFiles(d, TRUE)])

\* parseSessionFile of the next file: readFirstLine rejects when it is gone.
ParseStep(scan, d) ==
  LET file == Head(scan.files)
  IN IF ~Exists(d, file.path) THEN [scan EXCEPT !.error = "ENOENT"]
     ELSE IF ParseThrows(d[file.path]) THEN [scan EXCEPT !.error = "TypeError"]
     ELSE IF ~IsSession(d[file.path]) THEN [scan EXCEPT !.files = Tail(scan.files)]
     ELSE [scan EXCEPT
             !.files = Tail(scan.files),
             !.sessions = Append(scan.sessions,
                            parseSessionFile(file.path, file.archived, d[file.path]))]

Listing(scan) == ~(scan.gotActive /\ scan.gotArchived)
ScanFailed(scan) == scan.error # ""
ScanDone(scan) == ~Listing(scan) /\ scan.files = <<>> /\ ~ScanFailed(scan)

\* ---------------------------------------------------- the store operations
\* An operation in flight: the startup refresh of main ("main"), a single
\* archive toggle ("archive"), the bulk toggle ("bulk"), or the callback of
\* a committed rename ("rename") or tag edit ("tags").  pc "call": a
\* setArchiveStatus call is awaited; pc "meta": an updateSessionMetadata
\* call is awaited; pc "scan": refreshSessions is awaited.
NoOp == [kind |-> None]

NewOp(kind) ==
  [ kind |-> kind, pc |-> "scan", session |-> NoSession, wasSelected |-> FALSE,
    call |-> Idle, todo |-> <<>>, total |-> 0,
    archivedCount |-> 0, restoredCount |-> 0, failed |-> 0,
    scan |-> NewScan ]

\* handleArchiveToggle to its first await.
handleArchiveToggle(st, session) ==
  [NewOp("archive") EXCEPT
     !.pc = "call",
     !.session = session,
     !.wasSelected = session.filePath \in st.selectedPaths,
     !.call = setArchiveStatus(session, ~session.archived)]

\* toggleSelectedArchive to its first await, the selection taken in `order`.
toggleSelectedArchive(order) ==
  [NewOp("bulk") EXCEPT
     !.pc = "call",
     !.session = Head(order),
     !.todo = Tail(order),
     !.total = Len(order),
     !.call = setArchiveStatus(Head(order), ~Head(order).archived)]

\* What a step of an operation leaves: the operation (NoOp when it ended),
\* the state object, whether render() ran last, whether main failed, and the
\* path whose preview it starts to read.
Effect(op, st, rendered, fatal) ==
  [op |-> op, state |-> st, rendered |-> rendered, fatal |-> fatal,
   read |-> NoPath]

ErrorStatus(error) == Status(error)

\* handleArchiveToggle after setArchiveStatus returned newPath.
AfterArchive(op, st, newPath) ==
  LET rekeyed == IF op.wasSelected
                   THEN [st EXCEPT !.selectedPaths =
                           (@ \ {op.session.filePath}) \cup {newPath}]
                   ELSE st
      text == IF ~op.session.archived THEN "Archived session."
              ELSE "Restored session."
  IN Effect([op EXCEPT !.pc = "scan", !.scan = NewScan],
            setStatus(rekeyed, Status(text)), FALSE, FALSE)

\* The loop of toggleSelectedArchive after one call ended.
AfterBulkItem(op, st, call) ==
  LET counted ==
        IF call.err # "" THEN [op EXCEPT !.failed = @ + 1]
        ELSE IF call.target THEN [op EXCEPT !.archivedCount = @ + 1]
        ELSE [op EXCEPT !.restoredCount = @ + 1]
  IN IF op.todo = <<>>
       THEN Effect([counted EXCEPT !.pc = "scan", !.call = Idle,
                                   !.scan = NewScan], st, FALSE, FALSE)
       ELSE Effect([counted EXCEPT
                      !.session = Head(op.todo),
                      !.todo = Tail(op.todo),
                      !.call = setArchiveStatus(Head(op.todo),
                                                ~Head(op.todo).archived)],
                   st, FALSE, FALSE)

\* A setArchiveStatus call of the operation ended (returned or threw).
AfterCall(op, st, call) ==
  IF op.kind = "bulk" THEN AfterBulkItem(op, st, call)
  ELSE IF call.err = "" THEN AfterArchive(op, st, call.ret)
  ELSE Effect(NoOp, setStatus(st, ErrorStatus(call.err)), TRUE, FALSE)

\* The onSubmit callback of a rename or of a tag edit after
\* updateSessionMetadata ended; a rejection goes to the catch and the finally
\* of handleInputKey.
AfterMeta(op, st, call) ==
  LET text == IF op.kind = "rename"
                THEN (IF trim(call.updates.title) # <<>> THEN "Renamed session."
                      ELSE "Cleared session name.")
                ELSE (IF Len(call.updates.tags) > 0 THEN "Updated tags."
                      ELSE "Cleared tags.")
  IN IF call.err = ""
       THEN Effect([op EXCEPT !.pc = "scan", !.scan = NewScan],
                   setStatus(st, Status(text)), FALSE, FALSE)
       ELSE Effect(NoOp, setStatus(st, ErrorStatus(call.err)), TRUE, FALSE)

\* The continuation of a successful refreshSessions.
AfterRefresh(op, st, sessions) ==
  LET fresh == refreshSessions(st, sessions)
  IN CASE op.kind = "main" ->
            [Effect(NoOp, maybeLoadDetails(fresh).state, TRUE, FALSE)
               EXCEPT !.read = maybeLoadDetails(fresh).read]
       [] op.kind \in {"archive", "rename", "tags"} ->
            Effect(NoOp, fresh, TRUE, FALSE)
       [] op.kind = "bulk" ->
            Effect(NoOp,
                   setStatus(clearSelection(fresh),
                             Summary(op.archivedCount, op.restoredCount, op.failed)),
                   FALSE, FALSE)

\* refreshSessions rejected: the catch of the caller (main: exit).
AfterRefreshFailed(op, st, error) ==
  IF op.kind = "main" THEN Effect(NoOp, st, FALSE, TRUE)
  ELSE Effect(NoOp, setStatus(st, ErrorStatus(error)), TRUE, FALSE)

AfterScan(op, st, scan) ==
  IF ScanFailed(scan) THEN AfterRefreshFailed(op, st, scan.error)
  ELSE IF ScanDone(scan) THEN AfterRefresh(op, st, scan.sessions)
  ELSE Effect([op EXCEPT !.scan = scan], st, FALSE, FALSE)

\* ------------------------------------------------------------ preview reads
\* A read in flight: of a path, not opened yet (got = 0) or reading the file
\* it opened (got = the file).  loads counts the reads of each kind.
Reads == [path : Paths, got : 0..MaxFiles]
NoLoads == [r \in Reads |-> 0]

\* The reads in flight for a path, opened or not.
RECURSIVE ReadsUpTo(_, _, _)
ReadsUpTo(ls, path, got) ==
  IF got < 0 THEN 0
  ELSE ls[[path |-> path, got |-> got]] + ReadsUpTo(ls, path, got - 1)

InFlight(ls, path) == ReadsUpTo(ls, path, MaxFiles)

PathList == SortPaths(Paths)

RECURSIVE Sum(_, _, _)
Sum(ls, paths, n) ==
  IF n = 0 THEN 0 ELSE InFlight(ls, paths[n]) + Sum(ls, paths, n - 1)

TotalLoads(ls) == Sum(ls, PathList, Len(PathList))

\* void readMessagePreviews(path, ...): createReadStream, opened later.
StartRead(ls, path) ==
  IF path = NoPath THEN ls
  ELSE [ls EXCEPT ![[path |-> path, got |-> 0]] = @ + 1]

\* The preview pair of a file: its first and last message.
Previews(f) == f.id

\* The entry written, the loading flag left as it was.
PreviewLoaded_KeepLoading(st, path, preview) ==
  [state |-> [st EXCEPT !.detailCache[path] = preview], rendered |-> FALSE]

\* The .then continuation of a read.
PreviewLoaded(st, path, preview) ==
  LET cachedSt == [st EXCEPT !.detailCache[path] = preview]
  IN IF cachedSt.detailState.filePath = path
       THEN [state |-> [cachedSt EXCEPT !.detailState.loading = FALSE],
             rendered |-> TRUE]
       ELSE [state |-> cachedSt, rendered |-> FALSE]

\* The .catch continuation of a read.
PreviewFailed(st, path, error) ==
  [state |-> [setStatus([st EXCEPT !.detailCache[path] = NullPreview],
                        Status(error))
                EXCEPT !.detailState.loading = FALSE],
   rendered |-> TRUE]

\* --------------------------------------------------------------- the screen
\* What render() writes for a state.
DetailPane(st) ==
  LET session == currentSession(st)
  IN IF ~st.showDetails THEN <<"off">>
     ELSE IF session = NoSession THEN <<"(no session selected)">>
     ELSE IF st.detailState.loading /\ st.detailState.filePath = session.filePath
       THEN <<"(loading preview...)">>
     ELSE IF st.detailCache[session.filePath] = NoEntry
       THEN <<"(preview unavailable)">>
     ELSE IF st.detailCache[session.filePath] = NullPreview
       THEN <<"(no preview available)">>
     ELSE <<"preview", st.detailCache[session.filePath]>>

Shown(st) ==
  IF st.showHelp THEN <<"help">>
  ELSE << trim(st.searchQuery), st.archiveFilter, st.sortOrder, st.showDetails,
          st.selectedPaths, Len(st.sessions), st.statusMessage,
          st.filtered, st.selectedIndex, DetailPane(st), st.inputState >>

\* The screen after a step: render() ran last, or it shows what it showed.
Paint(was, st, stNew, rendered) ==
  rendered \/ (was /\ Shown(stNew) = Shown(st))

\* -------------------------------------------------------------- the process
\* The process as it is launched, with or without a terminal on stdin.
Launched(isTTY) ==
  [running |-> TRUE, rawMode |-> FALSE, cursorHidden |-> FALSE,
   exitCode |-> 0, isTTY |-> isTTY]

\* main() past hideCursor(), setRawMode(true) and stdin.on("data", ...).
Started == [Launched(TRUE) EXCEPT !.rawMode = TRUE, !.cursorHidden = TRUE]

\* exit() without setRawMode(false).
exit_KeepRaw(p) == [p EXCEPT !.cursorHidden = FALSE]

exit(p) ==
  [p EXCEPT !.cursorHidden = FALSE,
            !.rawMode = IF p.isTTY THEN FALSE ELSE @]
processExit(p, code) == [p EXCEPT !.running = FALSE, !.exitCode = code]

\* -------------------------------------------------------------- text entry
TAG_SUGGESTION_LIMIT == 5

\* The characters in the order of localeCompare (others sort first).
CharRank(c) ==
  CASE c = "a" -> 1 [] c = "h" -> 2 [] c = "r" -> 3 [] c = "t" -> 4
    [] c = "x" -> 5 [] OTHER -> 0

\* a.localeCompare(b): negative, zero or positive.
RECURSIVE localeCompare(_, _)
localeCompare(a, b) ==
  IF a = <<>> /\ b = <<>> THEN 0
  ELSE IF a = <<>> THEN 0 - 1
  ELSE IF b = <<>> THEN 1
  ELSE IF CharRank(Head(a)) # CharRank(Head(b))
    THEN CharRank(Head(a)) - CharRank(Head(b))
  ELSE localeCompare(Tail(a), Tail(b))

\* tags.sort((a, b) => a.toLowerCase().localeCompare(b.toLowerCase()))
RECURSIVE InsertTag(_, _)
InsertTag(sorted, tag) ==
  IF sorted = <<>> THEN <<tag>>
  ELSE LET last == sorted[Len(sorted)]
       IN IF localeCompare(toLowerCase(last), toLowerCase(tag)) <= 0
            THEN Append(sorted, tag)
            ELSE Append(InsertTag(SubSeq(sorted, 1, Len(sorted) - 1), tag), last)

RECURSIVE SortTagsFrom(_, _)
SortTagsFrom(sorted, rest) ==
  IF rest = <<>> THEN sorted
  ELSE SortTagsFrom(InsertTag(sorted, Head(rest)), Tail(rest))

SortTags(tags) == SortTagsFrom(<<>>, tags)

RECURSIVE AllTags(_)
AllTags(sessions) ==
  IF sessions = <<>> THEN <<>>
  ELSE Head(sessions).tags \o AllTags(Tail(sessions))

buildTagIndex(sessions) == SortTags(uniqueTags(AllTags(sessions)))

\* state.tagIndex: assigned with state.sessions, in refreshSessions only.
tagIndex(st) == buildTagIndex(st.sessions)

IsSeparator(c) == c \in {" ", ","}

\* input.split(/[\s,]+/) without the empty pieces.
RECURSIVE Pieces(_, _)
Pieces(input, piece) ==
  IF input = <<>> THEN (IF piece = <<>> THEN <<>> ELSE <<piece>>)
  ELSE IF IsSeparator(Head(input))
    THEN (IF piece = <<>> THEN <<>> ELSE <<piece>>) \o Pieces(Tail(input), <<>>)
  ELSE Pieces(Tail(input), Append(piece, Head(input)))

parseTagsInput(input) == uniqueTags(Pieces(input, <<>>))

\* normalizeTags of a string: value.split(/[\s,]+/), trimmed, the empty
\* pieces left out.
normalizeTagsOfString(value) == uniqueTags(TrimAll(Pieces(value, <<>>)))

\* The match of /^(.*?)([^,\s]*)$/: the longest end without a separator.
RECURSIVE FragmentLen(_)
FragmentLen(input) ==
  IF input = <<>> \/ IsSeparator(input[Len(input)]) THEN 0
  ELSE 1 + FragmentLen(SubSeq(input, 1, Len(input) - 1))

getTagFragment(input) ==
  [prefix |-> SubSeq(input, 1, Len(input) - FragmentLen(input)),
   fragment |-> SubSeq(input, Len(input) - FragmentLen(input) + 1, Len(input))]

startsWith(str, part) ==
  Len(part) <= Len(str) /\ SubSeq(str, 1, Len(part)) = part

getTagSuggestions(input, allTags, limit) ==
  LET fragmentLower == toLowerCase(getTagFragment(input).fragment)
      used == parseTagsInput(input)
      usedSet == {toLowerCase(used[i]) : i \in 1..Len(used)}
                   \ (IF fragmentLower # <<>> THEN {fragmentLower} ELSE {})
      Match(tag) ==
        /\ toLowerCase(tag) \notin usedSet
        /\ fragmentLower = <<>> \/ startsWith(toLowerCase(tag), fragmentLower)
      matches == SortTags(SelectSeq(allTags, Match))
  IN SubSeq(matches, 1, Min(limit, Len(matches)))

applyTagSuggestion(input, suggestion) ==
  getTagFragment(input).prefix \o suggestion

\* state.inputState: the kind, the text value, and the record the stored
\* onSubmit callback closes over (NoSession for a search).
startInput(st, kind, value, session) ==
  [st EXCEPT !.inputState =
     [kind |-> kind, value |-> value, session |-> session]]

handleRename(st, session) == startInput(st, "rename", session.title, session)

handleTags(st, session) ==
  startInput(st, "tags", join(session.tags, <<",", " ">>), session)

\* ------------------------------------------------------------- key handling
\* The keys of list mode ("escape" stands for the keys bound to nothing).
ListKeys ==
  {"up", "down", "top", "bottom", "filter", "toggle-details", "sort", "help",
   "select-all", "invert-selection", "clear-selection", "toggle-selection",
   "archive", "bulk-archive", "escape"}

\* The orders in which a Set of paths can be iterated.
RECURSIVE Orders(_)
Orders(S) ==
  IF S = {} THEN {<<>>}
  ELSE UNION {{<<x>> \o rest : rest \in Orders(S \ {x})} : x \in S}

Handled(st, op) == [state |-> st, op |-> op]

\* handleListKey (quit apart): the state it leaves and the operation it starts.
handleListKey(st, key, order) ==
  LET session == currentSession(st)
      last == Max(0, Len(st.filtered) - 1)
  IN CASE key = "up" ->
            Handled([st EXCEPT !.selectedIndex = Max(0, @ - 1)], NoOp)
       [] key = "down" ->
            Handled([st EXCEPT !.selectedIndex = Min(last, @ + 1)], NoOp)
       [] key = "filter" -> Handled(toggleArchiveFilter(st), NoOp)
       [] key = "toggle-details" -> Handled(toggleDetails(st), NoOp)
       [] key = "sort" -> Handled(toggleSortOrder(st), NoOp)
       [] key = "help" -> Handled(toggleHelp(st), NoOp)
       [] key = "top" -> Handled([st EXCEPT !.selectedIndex = 0], NoOp)
       [] key = "bottom" -> Handled([st EXCEPT !.selectedIndex = last], NoOp)
       [] key = "select-all" -> Handled(selectAllVisible(st), NoOp)
       [] key = "invert-selection" -> Handled(invertSelectionVisible(st), NoOp)
       [] key = "clear-selection" -> Handled(clearSelection(st), NoOp)
       [] key = "search" ->
            Handled(startInput(st, "search", st.searchQuery, NoSession), NoOp)
       [] key = "bulk-archive" ->
            IF order = <<>>
              THEN Handled(setStatus(st, Status("No sessions selected.")), NoOp)
              ELSE Handled(st, toggleSelectedArchive(order))
       [] OTHER ->
            IF session = NoSession THEN Handled(st, NoOp)
            ELSE IF key = "toggle-selection"
              THEN Handled(toggleSelection(st, session), NoOp)
            ELSE IF key = "rename" THEN Handled(handleRename(st, session), NoOp)
            ELSE IF key = "tags" THEN Handled(handleTags(st, session), NoOp)
            ELSE IF key = "archive"
              THEN Handled(st, handleArchiveToggle(st, session))
            ELSE Handled(st, NoOp)

OpIds == 1..MaxOps
FreeSlots == {i \in OpIds : ops[i] = NoOp}

\* The operation takes the lowest free slot.
StartOp(op) ==
  IF op = NoOp THEN ops
  ELSE [ops EXCEPT ![CHOOSE i \in FreeSlots : \A j \in FreeSlots : i <= j] = op]

\* No key is held back.
Intercepted_Never(st, key) == FALSE

\* handleKey returns at once: Help is shown and the key is not the help key
\* (nor quit).
Intercepted(st, key) == st.showHelp /\ key # "help"

\* handleKey(key) for a key of list mode other than quit.
HandleKey ==
  /\ proc.running
  /\ keys < MaxKeys
  /\ keys' = keys + 1
  /\ \E key \in ListKeys :
       IF Intercepted(state, key)
         THEN UNCHANGED <<state, ops, loads, painted>>
         ELSE \E order \in (IF key = "bulk-archive"
                              THEN Orders(selectedSessions(state))
                              ELSE {<<>>}) :
           LET r == handleListKey(state, key, order)
               m == IF r.state.inputState = NoInput /\ ~r.state.showHelp
                      THEN maybeLoadDetails(r.state)
                      ELSE [state |-> r.state, read |-> NoPath]
           IN /\ r.op # NoOp => FreeSlots # {}
              /\ m.read # NoPath => TotalLoads(loads) < MaxLoads
              /\ state' = m.state
              /\ ops' = StartOp(r.op)
              /\ loads' = StartRead(loads, m.read)
              /\ painted' = TRUE
  /\ UNCHANGED <<storeVars, harnessVars, proc>>

\* handleKey("quit"): exit() and process.exit(0).
Quit ==
  /\ proc.running
  /\ keys < MaxKeys
  /\ keys' = keys + 1
  /\ proc' = processExit(exit(proc), 0)
  /\ UNCHANGED <<storeVars, harnessVars, state, ops, loads, painted>>

\* A key as handleData names it: a name, and the character of a "char:" key.
Key(name, char) == [name |-> name, char |-> char]

\* What the terminal sends for one key press ("ESC": \x1b, "DEL": \x7f,
\* "^C": \u0003).
RawInputs ==
  {"/", "r", "t", "h", "a", "x", "q", ",", "\r", "\t", "ESC", "DEL", "^C"}

\* The help key named before the input state is looked at.
handleData_HelpFirst(st, text) ==
  IF text = "h" THEN Key("help", "")
  ELSE IF st.inputState # NoInput
    THEN CASE text = "ESC" -> Key("escape", "")
           [] text = "\r" -> Key("enter", "")
           [] text = "\t" -> Key("tab", "")
           [] text = "DEL" -> Key("backspace", "")
           [] OTHER -> Key("char", text)
    ELSE CASE text = "ESC" -> Key("escape", "")
           [] text = "\r" -> Key("enter", "")
           [] text = "\t" -> Key("toggle-selection", "")
           [] text = "DEL" -> Key("backspace", "")
           [] text = " " -> Key("toggle-selection", "")
           [] text = "/" -> Key("search", "")
           [] text = "f" -> Key("filter", "")
           [] text = "r" -> Key("rename", "")
           [] text = "t" -> Key("tags", "")
           [] text = "a" -> Key("archive", "")
           [] text = "B" -> Key("bulk-archive", "")
           [] text = "d" -> Key("toggle-details", "")
           [] text = "s" -> Key("sort", "")
           [] text = "g" -> Key("top", "")
           [] text = "G" -> Key("bottom", "")
           [] text = "?" -> Key("help", "")
           [] text = "j" -> Key("down", "")
           [] text = "k" -> Key("up", "")
           [] text = "A" -> Key("select-all", "")
           [] text = "I" -> Key("invert-selection", "")
           [] text = "C" -> Key("clear-selection", "")
           [] text = "q" -> Key("quit", "")
           [] OTHER -> Key("char", text)

\* handleData for a chunk other than Ctrl-C: the key it hands to handleKey.
handleData(st, text) ==
  IF st.inputState # NoInput
    THEN CASE text = "ESC" -> Key("escape", "")
           [] text = "\r" -> Key("enter", "")
           [] text = "\t" -> Key("tab", "")
           [] text = "DEL" -> Key("backspace", "")
           [] OTHER -> Key("char", text)
    ELSE CASE text = "ESC" -> Key("escape", "")
           [] text = "\r" -> Key("enter", "")
           [] text = "\t" -> Key("toggle-selection", "")
           [] text = "DEL" -> Key("backspace", "")
           [] text = " " -> Key("toggle-selection", "")
           [] text = "/" -> Key("search", "")
           [] text = "f" -> Key("filter", "")
           [] text = "r" -> Key("rename", "")
           [] text = "t" -> Key("tags", "")
           [] text = "a" -> Key("archive", "")
           [] text = "B" -> Key("bulk-archive", "")
           [] text = "d" -> Key("toggle-details", "")
           [] text = "s" -> Key("sort", "")
           [] text = "g" -> Key("top", "")
           [] text = "G" -> Key("bottom", "")
           [] text = "?" -> Key("help", "")
           [] text = "j" -> Key("down", "")
           [] text = "k" -> Key("up", "")
           [] text = "A" -> Key("select-all", "")
           [] text = "I" -> Key("invert-selection", "")
           [] text = "C" -> Key("clear-selection", "")
           [] text = "h" -> Key("help", "")
           [] text = "q" -> Key("quit", "")
           [] OTHER -> Key("char", text)

\* char >= " " && char !== "\x7f" ("^A": \x01)
Printable(char) == char \notin {"\r", "\t", "ESC", "DEL", "^C", "^A"}

\* The UTF-16 code units of a character as for...of yields it: one, or the
\* two surrogates of a character beyond the basic plane ("U+1F600").
CodeUnits(char) ==
  IF char = "U+1F600" THEN <<"U+D83D", "U+DE00">> ELSE <<char>>

\* The stored onSubmit callback called with the value, to its first await.
onSubmit(st, input) ==
  CASE input.kind = "search" ->
         Handled(applyFilters([st EXCEPT !.searchQuery = input.value]), NoOp)
    [] input.kind = "rename" ->
         Handled(st,
           [NewOp("rename") EXCEPT
              !.pc = "meta",
              !.session = input.session,
              !.call = updateSessionMetadata(input.session.filePath,
                         [title |-> input.value, tags |-> NoTags])])
    [] input.kind = "tags" ->
         Handled(st,
           [NewOp("tags") EXCEPT
              !.pc = "meta",
              !.session = input.session,
              !.call = updateSessionMetadata(input.session.filePath,
                         [title |-> Undefined,
                          tags |-> parseTagsInput(input.value)])])

\* handleInputKey with escape calling the callback as enter does.
handleInputKey_EscapeSubmits(st, key) ==
  LET input == st.inputState
      suggestions == getTagSuggestions(input.value, tagIndex(st),
                                       TAG_SUGGESTION_LIMIT)
  IN CASE key.name \in {"enter", "escape"} ->
            onSubmit([st EXCEPT !.inputState = NoInput], input)
       [] key.name = "backspace" ->
            Handled([st EXCEPT !.inputState.value =
                       SubSeq(@, 1, Max(0, Len(@) - 1))], NoOp)
       [] key.name = "tab" /\ input.kind = "tags" ->
            IF suggestions # <<>>
              THEN Handled([st EXCEPT !.inputState.value =
                              applyTagSuggestion(@, suggestions[1])], NoOp)
              ELSE Handled(st, NoOp)
       [] key.name = "char" /\ Printable(key.char) ->
            Handled([st EXCEPT !.inputState.value = @ \o CodeUnits(key.char)],
                    NoOp)
       [] OTHER -> Handled(st, NoOp)

\* handleInputKey with an input state: the state it leaves and the operation
\* the callback starts.
handleInputKey(st, key) ==
  LET input == st.inputState
      suggestions == getTagSuggestions(input.value, tagIndex(st),
                                       TAG_SUGGESTION_LIMIT)
  IN CASE key.name = "enter" ->
            onSubmit([st EXCEPT !.inputState = NoInput], input)
       [] key.name = "escape" ->
            Handled([st EXCEPT !.inputState = NoInput], NoOp)
       [] key.name = "backspace" ->
            Handled([st EXCEPT !.inputState.value =
                       SubSeq(@, 1, Max(0, Len(@) - 1))], NoOp)
       [] key.name = "tab" /\ input.kind = "tags" ->
            IF suggestions # <<>>
              THEN Handled([st EXCEPT !.inputState.value =
                              applyTagSuggestion(@, suggestions[1])], NoOp)
              ELSE Handled(st, NoOp)
       [] key.name = "char" /\ Printable(key.char) ->
            Handled([st EXCEPT !.inputState.value = @ \o CodeUnits(key.char)],
                    NoOp)
       [] OTHER -> Handled(st, NoOp)

\* handleKey(key) past its Help gate, up to render().
handleKey(st, key) ==
  LET r == IF st.inputState # NoInput THEN handleInputKey(st, key)
           ELSE handleListKey(st, key.name, <<>>)
      m == IF r.state.inputState = NoInput /\ ~r.state.showHelp
             THEN maybeLoadDetails(r.state)
             ELSE [state |-> r.state, read |-> NoPath]
  IN [state |-> m.state, op |-> r.op, read |-> m.read]

\* process.stdin.on("data", handleData): one key press arrives.
Data ==
  /\ proc.running
  /\ proc.rawMode
  /\ keys < MaxData
  /\ keys' = keys + 1
  /\ \E text \in RawInputs :
       LET key == handleData(state, text)
           r == handleKey(state, key)
       IN IF text = "^C" \/ key.name = "quit"
            THEN /\ proc' = processExit(exit(proc), 0)
                 /\ UNCHANGED <<state, ops, loads, painted>>
          ELSE IF Intercepted(state, key.name)
            THEN UNCHANGED <<state, ops, loads, painted, proc>>
          ELSE /\ r.op # NoOp => FreeSlots # {}
               /\ r.read # NoPath => TotalLoads(loads) < MaxLoads
               /\ state' = r.state
               /\ ops' = StartOp(r.op)
               /\ loads' = StartRead(loads, r.read)
               /\ painted' = TRUE
               /\ proc' = proc
  /\ UNCHANGED <<storeVars, harnessVars>>

\* ------------------------------------------------------- asynchronous steps
\* The continuation of a step of operation i runs.
Apply(i, e) ==
  /\ e.read # NoPath => TotalLoads(loads) < MaxLoads
  /\ ops' = [ops EXCEPT ![i] = e.op]
  /\ state' = e.state
  /\ loads' = StartRead(loads, e.read)
  /\ painted' = Paint(painted, state, e.state, e.rendered)
  /\ proc' = IF e.fatal THEN processExit(exit(proc), 1) ELSE proc

\* One await of the setArchiveStatus call of operation i completes.
OpCallStep(i) ==
  /\ proc.running
  /\ ops[i] # NoOp
  /\ ops[i].pc = "call"
  /\ LET r == IF Running(ops[i].call) THEN SasStep(ops[i].call, disk, dirs)
              ELSE Step(ops[i].call, disk, dirs)
     IN /\ disk' = r.disk
        /\ dirs' = r.dirs
        /\ Apply(i, IF r.call.pc = "done" THEN AfterCall(ops[i], state, r.call)
                    ELSE Effect([ops[i] EXCEPT !.call = r.call], state,
                                FALSE, FALSE))
  /\ UNCHANGED <<xdev, harnessVars, keys>>

\* One await of the updateSessionMetadata call of operation i completes.
OpMetaStep(i) ==
  /\ proc.running
  /\ ops[i] # NoOp
  /\ ops[i].pc = "meta"
  /\ LET r == UsmStep(ops[i].call, disk, dirs)
     IN /\ disk' = r.disk
        /\ dirs' = r.dirs
        /\ Apply(i, IF r.call.pc = "done" THEN AfterMeta(ops[i], state, r.call)
                    ELSE Effect([ops[i] EXCEPT !.call = r.call], state,
                                FALSE, FALSE))
  /\ UNCHANGED <<xdev, harnessVars, keys>>

Scanning(i) == proc.running /\ ops[i] # NoOp /\ ops[i].pc = "scan"

\* collectJsonlFiles(sessionsDir) of the refresh of operation i completes.
ScanListActive(i) ==
  /\ Scanning(i)
  /\ ~ops[i].scan.gotActive
  /\ Apply(i, AfterScan(ops[i], state, ListActiveStep(ops[i].scan, disk)))
  /\ UNCHANGED <<storeVars, harnessVars, keys>>

\* collectJsonlFiles(archivedDir) of the refresh of operation i completes.
ScanListArchived(i) ==
  /\ Scanning(i)
  /\ ~ops[i].scan.gotArchived
  /\ Apply(i, AfterScan(ops[i], state, ListArchivedStep(ops[i].scan, disk)))
  /\ UNCHANGED <<storeVars, harnessVars, keys>>

\* parseSessionFile of the next file of the refresh of operation i completes.
ScanParse(i) ==
  /\ Scanning(i)
  /\ ~Listing(ops[i].scan)
  /\ Apply(i, AfterScan(ops[i], state, ParseStep(ops[i].scan, disk)))
  /\ UNCHANGED <<storeVars, harnessVars, keys>>

\* The stream of a read opens: the file is there, or the read fails.
LoadOpen(path) ==
  /\ proc.running
  /\ loads[[path |-> path, got |-> 0]] > 0
  /\ IF Exists(disk, path)
       THEN /\ loads' = [loads EXCEPT
                           ![[path |-> path, got |-> 0]] = @ - 1,
                           ![[path |-> path, got |-> disk[path].id]] = @ + 1]
            /\ UNCHANGED <<state, painted>>
       ELSE LET e == PreviewFailed(state, path, "ENOENT")
            IN /\ loads' = [loads EXCEPT ![[path |-> path, got |-> 0]] = @ - 1]
               /\ state' = e.state
               /\ painted' = Paint(painted, state, e.state, e.rendered)
  /\ UNCHANGED <<storeVars, harnessVars, ops, proc, keys>>

\* A read reaches the end of its file.
LoadDone(path, got) ==
  /\ proc.running
  /\ loads[[path |-> path, got |-> got]] > 0
  /\ LET e == PreviewLoaded(state, path, Previews([id |-> got]))
     IN /\ loads' = [loads EXCEPT ![[path |-> path, got |-> got]] = @ - 1]
        /\ state' = e.state
        /\ painted' = Paint(painted, state, e.state, e.rendered)
  /\ UNCHANGED <<storeVars, harnessVars, ops, proc, keys>>

\* ------------------------------------------------------------------ the run
\* Two session files: the newer one under its own date, the older one named
\* after its date.
Newer == [dir |-> "d2", name |-> "g"]
Older == [dir |-> "d1", name |-> "v-d1"]

InitDisk ==
  [p \in Paths |->
     CASE p = Newer -> Plain(1, "d2", "d2")
       [] p = Older -> Plain(2, None, "d2")
       [] OTHER -> NoFile]

\* main() up to its await of refreshSessions.
Init ==
  /\ disk = InitDisk
  /\ dirs = DirsOf(disk)
  /\ xdev = FALSE
  /\ calls = [i \in CallIds |-> Idle]
  /\ loaded = <<>>
  /\ started = 0
  /\ state = InitState
  /\ ops = [i \in OpIds |-> IF i = 1 THEN NewOp("main") ELSE NoOp]
  /\ loads = NoLoads
  /\ painted = FALSE
  /\ proc = Started
  /\ keys = 0

Next ==
  \/ HandleKey
  \/ Quit
  \/ \E i \in OpIds : OpCallStep(i)
  \/ \E i \in OpIds : ScanListActive(i)
  \/ \E i \in OpIds : ScanListArchived(i)
  \/ \E i \in OpIds : ScanParse(i)
  \/ \E path \in Paths : LoadOpen(path)
  \/ \E path \in Paths, got \in 1..MaxFiles : LoadDone(path, got)

Spec == Init /\ [][Next]_vars

\* ------------------------------------------------- the run with text entry
\* One session file with a title and a tag; the keys are those of text entry
\* (search, rename, tags and what is typed into them), help, archive, quit.
Titled ==
  [Plain(1, "d2", "d2") EXCEPT !.title = <<"a">>, !.tags = << <<"t">> >>]

InputDisk == [p \in Paths |-> IF p = Newer THEN Titled ELSE NoFile]

\* main() up to its await of refreshSessions.
InputInit ==
  /\ disk = InputDisk
  /\ dirs = DirsOf(disk)
  /\ xdev = FALSE
  /\ calls = [i \in CallIds |-> Idle]
  /\ loaded = <<>>
  /\ started = 0
  /\ state = InitState
  /\ ops = [i \in OpIds |-> IF i = 1 THEN NewOp("main") ELSE NoOp]
  /\ loads = NoLoads
  /\ painted = FALSE
  /\ proc = Started
  /\ keys = 0

InputNext ==
  \/ Data
  \/ \E i \in OpIds : OpCallStep(i)
  \/ \E i \in OpIds : OpMetaStep(i)
  \/ \E i \in OpIds : ScanListActive(i)
  \/ \E i \in OpIds : ScanListArchived(i)
  \/ \E i \in OpIds : ScanParse(i)
  \/ \E path \in Paths : LoadOpen(path)
  \/ \E path \in Paths, got \in 1..MaxFiles : LoadDone(path, got)

SpecInput == InputInit /\ [][InputNext]_vars

\* ------------------------------------------------------------- the start
\* The process from its launch: with or without a terminal, over a session
\* file that loads or one whose first line makes loadSessions reject.
StartDisks ==
  {InputDisk,
   [InputDisk EXCEPT ![Older] = [Plain(2, None, "d1") EXCEPT !.kind = "null"]]}

StartInit ==
  /\ disk \in StartDisks
  /\ dirs = DirsOf(disk)
  /\ xdev = FALSE
  /\ calls = [i \in CallIds |-> Idle]
  /\ loaded = <<>>
  /\ started = 0
  /\ state = InitState
  /\ ops = [i \in OpIds |-> NoOp]
  /\ loads = NoLoads
  /\ painted = FALSE
  /\ proc \in {Launched(TRUE), Launched(FALSE)}
  /\ keys = 0

\* main() up to its await of refreshSessions: without a terminal the process
\* exits with 1; with one the cursor is hidden, stdin is put in raw mode and
\* listened to, and the first refresh starts.
Main ==
  /\ proc.running
  /\ ~proc.rawMode
  /\ \A i \in OpIds : ops[i] = NoOp
  /\ IF ~proc.isTTY
       THEN /\ proc' = processExit(proc, 1)
            /\ ops' = ops
       ELSE /\ proc' = [proc EXCEPT !.cursorHidden = TRUE, !.rawMode = TRUE]
            /\ ops' = [ops EXCEPT ![1] = NewOp("main")]
  /\ UNCHANGED <<storeVars, harnessVars, state, loads, painted, keys>>

StartNext ==
  \/ Main
  \/ InputNext

SpecStart == StartInit /\ [][StartNext]_vars

\* ------------------------------------------------------ claims on the engine
Focused(st) == currentSession(st).filePath

\* A read ends in this step: one read fewer is in flight for the path.
ReadEnds(path) ==
  /\ loads' # loads
  /\ TotalLoads(loads') < TotalLoads(loads)
  /\ InFlight(loads', path) < InFlight(loads, path)

\* C1: a preview read that ends, with a preview or with an error, for a path
\* other than the tracked one leaves the tracked path, the loading flag and
\* the cache entry of the focused record as they are.
C1_StaleCompletionIsNoOp ==
  [][\A path \in Paths :
       (ReadEnds(path) /\ state.detailState.filePath # path)
         => /\ state'.detailState = state.detailState
            /\ Focused(state) # NoPath /\ Focused(state) # path
                 => state'.detailCache[Focused(state)]
                      = state.detailCache[Focused(state)]]_vars

Quiet == \A i \in OpIds : ops[i] = NoOp

\* C2: whenever no store operation is in flight, the session list held in
\* memory is what a fresh load of the files on disk returns.
C2_ListMatchesDisk ==
  (proc.running /\ Quiet) => state.sessions = loadSessions(disk)

\* The bulk toggle in slot i ends in this step.
BulkEnds(i) == ops[i] # NoOp /\ ops[i].kind = "bulk" /\ ops'[i] = NoOp

\* C7: when a bulk toggle ends, every record of its selection was processed
\* and counted once, the session list is the re-scanned one, the selection
\* is empty and the status line reports the three counts.
C7_BulkEndsClean ==
  [][\A i \in OpIds :
       BulkEnds(i)
         => /\ ops[i].todo = <<>>
            /\ ops[i].archivedCount + ops[i].restoredCount + ops[i].failed
                 = ops[i].total
            /\ ops[i].scan.files # <<>>
                 => state'.sessions =
                      Append(ops[i].scan.sessions,
                             parseSessionFile(Head(ops[i].scan.files).path,
                                              Head(ops[i].scan.files).archived,
                                              disk[Head(ops[i].scan.files).path]))
            /\ state'.selectedPaths = {}
            /\ state'.statusMessage =
                 Summary(ops[i].archivedCount, ops[i].restoredCount,
                         ops[i].failed)]_vars

\* An operation started by a key ends in this step.
KeyOpEnds(i) ==
  ops[i] # NoOp /\ ops[i].kind \in {"archive", "bulk"} /\ ops'[i] = NoOp

\* C8: the step in which an operation started by a key ends, and the step in
\* which the preview read of the tracked record ends, leave the screen
\* showing the state they produced.
C8_CompletionRenders ==
  [][/\ \A i \in OpIds : KeyOpEnds(i) => painted'
     /\ \A path \in Paths :
          (ReadEnds(path) /\ state.detailState.filePath = path) => painted']_vars

\* C9: with the detail pane on, outside Help and with a record focused, the
\* preview of the focused record is cached or being read.
C9_FocusedPreviewEvaluated ==
  (proc.running /\ state.showDetails /\ ~state.showHelp
     /\ state.inputState = NoInput /\ Focused(state) # NoPath)
    => \/ state.detailCache[Focused(state)] # NoEntry
       \/ InFlight(loads, Focused(state)) > 0

\* C10: a key that leaves the focus on a record whose preview is being read
\* starts no second read of that file.
C10_OneReadPerFocus ==
  [][(keys' = keys + 1 /\ Focused(state) # NoPath
       /\ Focused(state') = Focused(state)
       /\ InFlight(loads, Focused(state)) > 0)
      => InFlight(loads', Focused(state)) = InFlight(loads, Focused(state))]_vars

\* The refresh awaited by operation i completes in this step: its last file
\* is parsed (or its last listing shows no file), and the list is installed.
RefreshCompletes(i) ==
  /\ ops[i] # NoOp /\ ops[i].pc = "scan" /\ ops'[i] = NoOp
  /\ ~(~Listing(ops[i].scan) /\ ops[i].scan.files # <<>>
        /\ ~Exists(disk, Head(ops[i].scan.files).path))

ListedPaths(st) == {st.sessions[k].filePath : k \in 1..Len(st.sessions)}

MoveReturns(i) ==
  /\ ops[i] # NoOp /\ ops[i].kind = "archive" /\ ops[i].pc = "call"
  /\ ops'[i] # NoOp /\ ops'[i].pc = "scan"

\* C12: when the move of a single archive toggle has succeeded, the record's
\* new path is selected if and only if the record was selected (under its
\* old path) when the move returned, whatever the user did to the selection
\* while the move was in flight, and the old path is not selected.
C12_RekeyKeepsMembership ==
  [][\A i \in OpIds :
       MoveReturns(i) =>
         LET old == ops[i].session.filePath
             new == ops[i].call.dest
         IN /\ new \in state'.selectedPaths <=> old \in state.selectedPaths
            /\ old \notin state'.selectedPaths]_vars

\* C13: while Help is shown, a key other than the help key and quit leaves
\* the whole state object as it is and starts neither a store operation nor
\* a preview read.
C13_HelpInterceptsKeys ==
  [][(keys' = keys + 1 /\ state.showHelp /\ state'.showHelp /\ proc'.running)
      => (state' = state /\ ops' = ops /\ loads' = loads)]_vars

\* Help was shown by the first key and is still shown after a second one.
C13_Witness ==
  proc.running /\ keys = 2 /\ state.showHelp /\ Len(state.sessions) = 2

\* The operation in slot i, started by a key that acts on one record, fails
\* in this step: it ends, and not by a completed refresh.
Fails(i) ==
  /\ ops[i] # NoOp /\ ops[i].kind \in {"archive", "rename", "tags"}
  /\ ops'[i] = NoOp
  /\ ~RefreshCompletes(i)

\* The operation in slot i has changed the selection before this step.
Rekeyed(i) ==
  ops[i].kind = "archive" /\ ops[i].pc = "scan" /\ ops[i].wasSelected

\* C16: when a committed rename or tag edit or a single archive toggle
\* fails, the process goes on, the error becomes the status message and
\* nothing else of the state changes then, and the action has not changed
\* the selection: session list, selection and focus are as before it.
C16_FailureLeavesState ==
  [][\A i \in OpIds :
       Fails(i) =>
         /\ proc'.running
         /\ state'.statusMessage.text \notin
              {"", "Archived session.", "Restored session.",
               "Renamed session.", "Cleared session name.",
               "Updated tags.", "Cleared tags."}
         /\ state' = [state EXCEPT !.statusMessage = state'.statusMessage]
         /\ ~Rekeyed(i)]_vars

\* ------------------------------------------------- claims on text entry
\* What a key press leaves, Help gate included: the state, the operation
\* started and the preview read started.
AfterKey(st, text) ==
  IF Intercepted(st, handleData(st, text).name)
    THEN [state |-> st, op |-> NoOp, read |-> NoPath]
    ELSE handleKey(st, handleData(st, text))

TextEntry(st) == st.inputState # NoInput

\* C14 as stated: in every state without Help, Normal or TextEntry, the help
\* key shows Help and leaves the pending text as it is, and the help key
\* pressed again hides Help, the pending text still as it was.
C14_HelpFromAnyState ==
  (proc.running /\ ~state.showHelp) =>
    LET shown == AfterKey(state, "h").state
        back == AfterKey(shown, "h").state
    IN /\ shown.showHelp
       /\ shown.inputState = state.inputState
       /\ ~back.showHelp
       /\ back.inputState = state.inputState

\* C14 amended: from Normal the help key shows Help and nothing else
\* changes, and pressed again it hides Help, the state being the one Help
\* was entered from (up to the preview the focus asks for); in TextEntry the
\* help key is a character: it is appended to the pending text, and Help is
\* never shown while an input state exists.
C14_HelpFromNormalOnly ==
  proc.running =>
    LET shown == AfterKey(state, "h")
        back == AfterKey(shown.state, "h")
    IN /\ (~TextEntry(state) /\ ~state.showHelp)
            => /\ shown.state = [state EXCEPT !.showHelp = TRUE]
               /\ shown.op = NoOp /\ shown.read = NoPath
               /\ back.state = maybeLoadDetails(state).state
               /\ back.op = NoOp
       /\ TextEntry(state)
            => /\ ~state.showHelp
               /\ shown.state =
                    [state EXCEPT !.inputState.value = Append(@, "h")]
               /\ shown.op = NoOp /\ shown.read = NoPath

\* The help key was pressed in a rename: the text is the title and an "h".
C14_Witness ==
  /\ TextEntry(state)
  /\ state.inputState.kind = "rename"
  /\ state.inputState.value = <<"a", "h">>
  /\ ~state.showHelp

\* The operation in slot i is the callback of the input entered, called with
\* its value.
Submitted(op, input) ==
  /\ op # NoOp
  /\ op.kind = input.kind
  /\ op.pc = "meta"
  /\ op.call.pc = "readFile"
  /\ op.call.filePath = input.session.filePath
  /\ op.call.updates =
       (IF input.kind = "rename"
          THEN [title |-> input.value, tags |-> NoTags]
          ELSE [title |-> Undefined, tags |-> parseTagsInput(input.value)])

\* C15: in TextEntry, confirm destroys the input state and calls the stored
\* callback once with the value of that moment (a search sets the query and
\* filters; a rename or a tag edit starts one update of the record's file
\* with the value), and cancel destroys the input state, calls nothing and
\* leaves query, session list and selection as they are; the key press that
\* leaves TextEntry changes no file and starts at most one operation.
C15_LeavingTextEntry ==
  /\ [](proc.running /\ TextEntry(state) =>
          LET input == state.inputState
              confirm == AfterKey(state, "\r")
              cancel == AfterKey(state, "ESC")
          IN /\ ~TextEntry(confirm.state)
             /\ input.kind = "search"
                  => /\ confirm.op = NoOp
                     /\ confirm.state.searchQuery = input.value
                     /\ confirm.state.sessions = state.sessions
                     /\ confirm.state.selectedPaths = state.selectedPaths
             /\ input.kind # "search"
                  => /\ Submitted(confirm.op, input)
                     /\ confirm.state.searchQuery = state.searchQuery
                     /\ confirm.state.sessions = state.sessions
             /\ ~TextEntry(cancel.state)
             /\ cancel.op = NoOp
             /\ cancel.state.searchQuery = state.searchQuery
             /\ cancel.state.sessions = state.sessions
             /\ cancel.state.filtered = state.filtered
             /\ cancel.state.selectedPaths = state.selectedPaths
             /\ cancel.state.statusMessage = state.statusMessage)
  /\ [][(keys' = keys + 1 /\ TextEntry(state) /\ ~TextEntry(state'))
          => /\ disk' = disk
             /\ Cardinality({i \in OpIds : ops'[i] # ops[i]}) <= 1
             /\ \A i \in OpIds :
                  ops'[i] # ops[i]
                    => ops[i] = NoOp /\ Submitted(ops'[i], state.inputState)]_vars

\* A rename was confirmed with an "x" typed after the title: its update of
\* the file is in flight with that value, and the input state is gone.
C15_Witness ==
  /\ ~TextEntry(state)
  /\ \E i \in OpIds :
       /\ ops[i] # NoOp /\ ops[i].kind = "rename" /\ ops[i].pc = "meta"
       /\ ops[i].call.updates.title = <<"a", "x">>

\* ------------------------------------------------------------ the previews
\* text.replace(/\s+/g, " "): every run of white space becomes one space.
RECURSIVE Collapse(_)
Collapse(text) ==
  IF text = <<>> THEN <<>>
  ELSE IF Head(text) = " " /\ Len(text) > 1 /\ text[2] = " "
    THEN Collapse(Tail(text))
  ELSE <<Head(text)>> \o Collapse(Tail(text))

normalizeWhitespace(text) == trim(Collapse(text))

\* A content part: null, or an object whose fields text, input_text and
\* output_text each hold a string or nothing (Undefined).
NullPart == [kind |-> "null"]
Part(text, input_text, output_text) ==
  [kind |-> "object", text |-> text, input_text |-> input_text,
   output_text |-> output_text]

\* The string a part yields: the first of its fields that is a string.
PartText(part) ==
  IF part.text # Undefined THEN part.text
  ELSE IF part.input_text # Undefined THEN part.input_text
  ELSE IF part.output_text # Undefined THEN part.output_text
  ELSE <<>>

\* A payload that is an object: its type and its content, an array of parts
\* or none.
NotArray == <<[kind |-> "notArray"]>>

extractMessageText(payload) ==
  IF payload.type # "message" THEN <<>>
  ELSE IF payload.content = NotArray THEN <<>>
  ELSE LET Kept(part) == part.kind = "object" /\ PartText(part) # <<>>
           kept == SelectSeq(payload.content, Kept)
           parts == [i \in 1..Len(kept) |-> PartText(kept[i])]
       IN normalizeWhitespace(join(parts, <<" ">>))

\* A line of the file as JSON.parse takes it: no JSON ("junk"), null, a
\* number, or an object whose payload is absent, a string or an object.
NoText == <<"null">>
Throws == <<"TypeError">>

extractPreviewFromLine(line) ==
  CASE line.json = "junk" -> NoText
    [] line.json = "null" -> Throws
    [] line.json = "number" -> NoText
    [] line.payload.kind # "object" -> NoText
    [] OTHER -> IF extractMessageText(line.payload) = <<>> THEN NoText
                ELSE extractMessageText(line.payload)

\* text.slice(0, n)
slice(text, n) == SubSeq(text, 1, Min(n, Len(text)))

truncate(text, maxChars) ==
  IF Len(text) <= maxChars THEN text
  ELSE IF maxChars <= 3 THEN slice(text, maxChars)
  ELSE slice(text, maxChars - 3) \o <<".", ".", ".">>

\* The loop over the lines readline yields: first and last as they stand
\* after each line, or the error thrown out of the loop.
RECURSIVE ReadLines(_, _, _)
ReadLines(lines, first, last) ==
  IF lines = <<>> THEN [ret |-> "end", first |-> first, last |-> last]
  ELSE LET preview == extractPreviewFromLine(Head(lines))
       IN IF preview = Throws
            THEN [ret |-> "TypeError", first |-> first, last |-> last]
          ELSE IF preview = NoText THEN ReadLines(Tail(lines), first, last)
          ELSE ReadLines(Tail(lines),
                         IF first = NoText THEN preview ELSE first, preview)

\* ret: "null", "previews" with first and last, or the error the promise is
\* rejected with.
readMessagePreviews(lines, maxChars) ==
  LET read == ReadLines(lines, NoText, NoText)
  IN IF read.ret = "TypeError" THEN [ret |-> "TypeError"]
     ELSE IF read.first = NoText THEN [ret |-> "null"]
     ELSE [ret |-> "previews",
           first |-> truncate(read.first, maxChars),
           last |-> truncate(IF read.last = NoText THEN read.first
                             ELSE read.last, maxChars)]

\* ---------------------------------------------------------- the list window
\* getListWindow without the clamp at the end of the list.
getListWindow_NoEndClamp(selectedIndex, listLength, viewSize) ==
  IF listLength <= viewSize THEN <<0, listLength>>
  ELSE LET half == viewSize \div 2
           start == Max(0, selectedIndex - half)
       IN <<start, Min(listLength, start + viewSize)>>

\* getListWindow(listLength, viewSize), which reads state.selectedIndex.
getListWindow(selectedIndex, listLength, viewSize) ==
  IF listLength <= viewSize THEN <<0, listLength>>
  ELSE LET half == viewSize \div 2
           centred == selectedIndex - half
           lower == IF centred < 0 THEN 0 ELSE centred
           start == IF lower + viewSize > listLength
                      THEN Max(0, listLength - viewSize)
                      ELSE lower
       IN <<start, Min(listLength, start + viewSize)>>

\* ============================================================ the functions
\* ------------------------------------------------------------------- bounds
MaxList == 2

MaxSort == 3

MaxText == 4
MaxTags == 3
MaxParts == 2
MaxLines == 3
MaxLength == 6
MaxView == 4

\* ----------------------------------------------------------------- harness
\* The exported functions called directly, as the tests do: one call with its
\* arguments, its result held until the next call.
NoCall == [fn |-> "none"]

ListsOf(S) == UNION {[1..n -> S] : n \in 0..MaxList}

FilterNames == {<<"a">>, <<"X", "a">>, <<"b">>}
FilterTags == {<<>>, << <<"a">> >>, << <<"b">>, <<"X">> >>}
FilterSessions ==
  [displayName : FilterNames, tags : FilterTags, archived : BOOLEAN]
Queries ==
  {<<>>, <<" ">>, <<"a">>, <<"X">>, <<" ", "a">>, <<"x", "a", " ">>,
   <<"b", " ", "x">>, <<"a", "b">>}
ArchiveFilters == {"all", "active", "archived"}

FnInit ==
  /\ state = NoCall
  /\ disk = [q \in Paths |-> NoFile]
  /\ dirs = {}
  /\ xdev = FALSE
  /\ calls = <<>> /\ loaded = <<>> /\ started = 0
  /\ ops = <<>> /\ loads = <<>>
  /\ painted = FALSE /\ proc = <<>> /\ keys = 0

FnUnchanged ==
  UNCHANGED <<disk, dirs, xdev, calls, loaded, started, ops, loads, painted,
              proc, keys>>

\* filterSessions(sessions, query, archiveFilter)
CallFilter ==
  /\ state = NoCall
  /\ \E sessions \in ListsOf(FilterSessions), query \in Queries,
        archiveFilter \in ArchiveFilters :
       state' = [fn |-> "filterSessions", sessions |-> sessions,
                 query |-> query, archiveFilter |-> archiveFilter,
                 out |-> filterSessions(sessions, query, archiveFilter)]
  /\ FnUnchanged

\* The sort keys parseSessionFile produces: a time, 0, or NaN.
SortKeys == {NaN, 0, 1, 2}

\* The lists to sort: the record at place i has the id i.
SortLists ==
  UNION {{[i \in 1..n |-> [id |-> i, sortKey |-> k[i]]] : k \in [1..n -> SortKeys]} :
           n \in 0..MaxSort}

\* sortSessionsByDate(sessions, "asc") and sortSessionsByDate(sessions,
\* "desc") of one list; after: the list as the calls leave it, which sort a
\* copy.
CallSort ==
  /\ state = NoCall
  /\ \E sessions \in SortLists :
       state' = [fn |-> "sortSessionsByDate", sessions |-> sessions,
                 asc |-> sortSessionsByDate(sessions, "asc"),
                 desc |-> sortSessionsByDate(sessions, "desc"),
                 after |-> sessions]
  /\ FnUnchanged

TextsOver(S) == UNION {[1..n -> S] : n \in 0..MaxText}

\* What is typed into the tags prompt, or stands in a payload as a string.
TagTexts == TextsOver({"x", "X", " ", ","})

\* The items of a tags array: strings, and one that is no string.
TagItems == {Undefined, <<>>, <<" ">>, <<"x">>, <<"X">>, <<" ", "x">>,
             <<"X", " ">>, <<"x", " ", "X">>}
TagArrays == UNION {[1..n -> TagItems] : n \in 0..MaxTags}

\* parseTagsInput(input)
CallParseTags ==
  /\ state = NoCall
  /\ \E input \in TagTexts :
       state' = [fn |-> "parseTagsInput", text |-> input, list |-> NoTags,
                 out |-> parseTagsInput(input)]
  /\ FnUnchanged

\* The tags of the record loaded from a payload whose tags field is an array
\* or a string.
CallNormalizeTags ==
  /\ state = NoCall
  /\ \/ \E value \in TagArrays :
          state' = [fn |-> "normalizeTags", text |-> Undefined,
                    list |-> value, out |-> normalizeTags(value)]
     \/ \E value \in TagTexts :
          state' = [fn |-> "normalizeTags", text |-> value, list |-> NoTags,
                    out |-> normalizeTagsOfString(value)]
  /\ FnUnchanged

\* The tags field of the payload updateSessionMetadata writes for
\* updates.tags, an array of strings; no field: the empty list.
CallUpdateTags ==
  /\ state = NoCall
  /\ \E tags \in TagArrays :
       /\ \A i \in 1..Len(tags) : tags[i] # Undefined
       /\ LET payload == ApplyUpdates(Payload(Plain(1, None, "d1")),
                                      [title |-> Undefined, tags |-> tags])
          IN state' = [fn |-> "updateSessionMetadata", text |-> Undefined,
                       list |-> tags,
                       out |-> IF payload.tags = NoTags THEN <<>>
                               ELSE payload.tags]
  /\ FnUnchanged

\* The known tags handed to getTagSuggestions: tags that differ, in any order.
Vocabulary == {<<"a">>, <<"x">>, <<"X", "a">>, <<"a", "x">>}
Vocabularies ==
  {tags \in UNION {[1..n -> Vocabulary] : n \in 0..MaxTags} :
     \A i, j \in 1..Len(tags) : i # j => tags[i] # tags[j]}
SuggestTexts == TextsOver({"a", "x", "X", ","})
Limits == {1, 2, TAG_SUGGESTION_LIMIT}

\* getTagSuggestions(input, allTags, limit)
CallSuggest ==
  /\ state = NoCall
  /\ \E input \in SuggestTexts, allTags \in Vocabularies, limit \in Limits :
       state' = [fn |-> "getTagSuggestions", input |-> input,
                 allTags |-> allTags, limit |-> limit,
                 out |-> getTagSuggestions(input, allTags, limit)]
  /\ FnUnchanged

\* The parts of a message: fields present and absent, empty, white space.
Parts ==
  {NullPart,
   Part(Undefined, Undefined, Undefined),
   Part(<<"a">>, Undefined, Undefined),
   Part(<<"a">>, <<"x">>, Undefined),
   Part(<<>>, <<"x">>, Undefined),
   Part(<<>>, Undefined, <<"b">>),
   Part(<<" ">>, Undefined, Undefined),
   Part(Undefined, <<" ", "x", " ", " ", "a">>, <<"b">>),
   Part(Undefined, Undefined, <<"b">>)}
Contents == {NotArray} \cup UNION {[1..n -> Parts] : n \in 0..MaxParts}
Payloads == [kind : {"object"}, type : {"message", "event"}, content : Contents]

\* extractMessageText(payload)
CallExtract ==
  /\ state = NoCall
  /\ \E payload \in Payloads :
       state' = [fn |-> "extractMessageText", payload |-> payload,
                 out |-> extractMessageText(payload)]
  /\ FnUnchanged

\* The lines of a session file.
Message(content) ==
  [json |-> "object",
   payload |-> [kind |-> "object", type |-> "message", content |-> content]]
PreviewLines ==
  {[json |-> "junk"], [json |-> "null"], [json |-> "number"],
   [json |-> "object", payload |-> [kind |-> "absent"]],
   [json |-> "object", payload |-> [kind |-> "string"]],
   [json |-> "object",
    payload |-> [kind |-> "object", type |-> "event", content |-> <<>>]],
   Message(<<>>),
   Message(<<Part(<<" ">>, Undefined, Undefined)>>),
   Message(<<Part(<<"a">>, Undefined, Undefined)>>),
   Message(<<Part(<<"b">>, Undefined, Undefined),
             Part(Undefined, <<" ", "x", " ", " ", "a">>, Undefined)>>)}
PreviewFiles == UNION {[1..n -> PreviewLines] : n \in 0..MaxLines}
Budgets == {0, 3, 4, 6}

\* await readMessagePreviews(filePath, maxChars) on a file of these lines.
CallPreviews ==
  /\ state = NoCall
  /\ \E lines \in PreviewFiles, maxChars \in Budgets :
       state' = [fn |-> "readMessagePreviews", lines |-> lines,
                 maxChars |-> maxChars,
                 out |-> readMessagePreviews(lines, maxChars)]
  /\ FnUnchanged

\* The lists render() windows: a length, a view of at least one row and a
\* focus within the list; and the list of 100 with a view of 10.
Windows ==
  {w \in [listLength : 0..MaxLength, viewSize : 1..MaxView,
          selectedIndex : 0..MaxLength] :
     w.selectedIndex <= Max(0, w.listLength - 1)}
    \cup [listLength : {100}, viewSize : {10}, selectedIndex : {0, 4, 5, 95, 99}]

\* getListWindow(state.filtered.length, listSize) in render().
CallWindow ==
  /\ state = NoCall
  /\ \E w \in Windows :
       state' = [fn |-> "getListWindow", listLength |-> w.listLength,
                 viewSize |-> w.viewSize, selectedIndex |-> w.selectedIndex,
                 out |-> getListWindow(w.selectedIndex, w.listLength,
                                       w.viewSize)]
  /\ FnUnchanged

\* The caller drops the result.
FnReturn ==
  /\ state # NoCall
  /\ state' = NoCall
  /\ FnUnchanged

FnNext ==
  \/ CallFilter
  \/ CallSort
  \/ CallParseTags
  \/ CallNormalizeTags
  \/ CallUpdateTags
  \/ CallSuggest
  \/ CallExtract
  \/ CallPreviews
  \/ CallWindow
  \/ FnReturn

SpecFn == FnInit /\ [][FnNext]_vars

\* ------------------------------------------------- claims on the functions
\* The part of a string between its first and its last character that is no
\* white space.
Stripped(str) ==
  LET Ink == {i \in 1..Len(str) : str[i] # " "}
  IN IF Ink = {} THEN <<>>
     ELSE SubSeq(str, CHOOSE i \in Ink : \A j \in Ink : i <= j,
                      CHOOSE i \in Ink : \A j \in Ink : i >= j)

\* str = before \o part \o after, for some before and after.
Contains(str, part) ==
  \E n \in 0..Len(str) :
    /\ n + Len(part) <= Len(str)
    /\ \A k \in 1..Len(part) : str[n + k] = part[k]

InScope(session, archiveFilter) ==
  CASE archiveFilter = "active" -> ~session.archived
    [] archiveFilter = "archived" -> session.archived
    [] OTHER -> TRUE

\* The display name or the tags joined by single spaces hold the text,
\* ignoring case.
Matches(session, text) ==
  \/ Contains(toLowerCase(session.displayName), toLowerCase(text))
  \/ Contains(toLowerCase(join(session.tags, <<" ">>)), toLowerCase(text))

\* The records of the list that pass, in the order of the list.
Passing(list, Pass(_)) ==
  LET RECURSIVE From(_)
      From(i) == IF i > Len(list) THEN <<>>
                 ELSE (IF Pass(list[i]) THEN <<list[i]>> ELSE <<>>)
                        \o From(i + 1)
  IN From(1)

\* C22 as stated: filterSessions returns exactly the records, in input order,
\* that are in the archive scope and whose lower-cased display name or
\* lower-cased tags joined by single spaces contain the lower-cased query.
C22_FilterMatchesQuery ==
  state.fn = "filterSessions" =>
    LET Pass(session) == /\ InScope(session, state.archiveFilter)
                         /\ Matches(session, state.query)
    IN state.out = Passing(state.sessions, Pass)

\* C22 amended: filterSessions returns exactly the records, in input order,
\* that are in the archive scope and whose lower-cased display name or
\* lower-cased tags joined by single spaces contain the lower-cased query
\* with the white space at its ends removed; a query of nothing but white
\* space keeps every record of the scope.
C22_FilterMatchesTrimmedQuery ==
  state.fn = "filterSessions" =>
    LET Pass(session) == /\ InScope(session, state.archiveFilter)
                         /\ Matches(session, Stripped(state.query))
    IN state.out = Passing(state.sessions, Pass)

\* C22 witness: a query with white space at an end, matched through the tags
\* of one record and the name of another, with a record out of scope and a
\* record that does not match left out.
C22_Witness ==
  /\ state.fn = "filterSessions"
  /\ state.query = <<"x", "a", " ">>
  /\ state.archiveFilter = "active"
  /\ Len(state.sessions) = 2
  /\ state.sessions[1].displayName = <<"b">>
  /\ state.sessions[2] = [displayName |-> <<"X", "a">>, tags |-> <<>>,
                          archived |-> FALSE]
  /\ state.out = <<state.sessions[2]>>

Reverse(list) == [i \in 1..Len(list) |-> list[Len(list) + 1 - i]]

IsPermutation(out, in) == Len(out) = Len(in) /\ Range(out) = Range(in)

\* Any two records with numeric keys stand in the order of their keys, and
\* in the order of the input when the keys are equal.
OrderedBy(out, Before(_, _)) ==
  \A i, j \in 1..Len(out) :
    (i < j /\ out[i].sortKey # NaN /\ out[j].sortKey # NaN)
      => /\ ~Before(out[j].sortKey, out[i].sortKey)
         /\ out[i].sortKey = out[j].sortKey => out[i].id < out[j].id

NoEqualKeys(list) ==
  \A i, j \in 1..Len(list) : i # j => list[i].sortKey # list[j].sortKey

\* C23: sortSessionsByDate returns a permutation of its input ordered by sort
\* key in the requested direction, equal keys in input order, leaves the
\* input list as it was, and for a list without equal keys the descending
\* result is the reverse of the ascending one.
C23_SortOrdersByKey ==
  state.fn = "sortSessionsByDate" =>
    /\ IsPermutation(state.asc, state.sessions)
    /\ IsPermutation(state.desc, state.sessions)
    /\ OrderedBy(state.asc, LAMBDA a, b : a < b)
    /\ OrderedBy(state.desc, LAMBDA a, b : a > b)
    /\ state.after = state.sessions
    /\ NoEqualKeys(state.sessions) => state.desc = Reverse(state.asc)

\* The words of a text: its longest runs of characters that are neither
\* white space nor commas, in order.
Words(text) ==
  LET Ink(i) == i \in 1..Len(text) /\ text[i] \notin {" ", ","}
      Starts == {i \in 1..Len(text) : Ink(i) /\ ~Ink(i - 1)}
      EndOf(i) == CHOOSE e \in i..Len(text) :
                    /\ \A k \in i..e : Ink(k)
                    /\ ~Ink(e + 1)
      RECURSIVE From(_)
      From(i) == IF i > Len(text) THEN <<>>
                 ELSE (IF i \in Starts THEN <<SubSeq(text, i, EndOf(i))>>
                       ELSE <<>>) \o From(i + 1)
  IN From(1)

\* The tags handed in, as they count: the words of a text, or the strings of
\* a list without the white space at their ends, the empty ones left out.
TagsGiven ==
  IF state.text # Undefined THEN Words(state.text)
  ELSE LET Given(k) == state.list[k] # Undefined
                         /\ Stripped(state.list[k]) # <<>>
           RECURSIVE From(_)
           From(k) == IF k > Len(state.list) THEN <<>>
                      ELSE (IF Given(k) THEN <<Stripped(state.list[k])>>
                            ELSE <<>>) \o From(k + 1)
       IN From(1)

\* The tags that have no equal, ignoring case, before them.
FirstOccurrences(tags) ==
  LET First(k) == \A j \in 1..(k - 1) : toLowerCase(tags[j]) # toLowerCase(tags[k])
      RECURSIVE From(_)
      From(k) == IF k > Len(tags) THEN <<>>
                 ELSE (IF First(k) THEN <<tags[k]>> ELSE <<>>) \o From(k + 1)
  IN From(1)

TagCalls == {"parseTagsInput", "normalizeTags", "updateSessionMetadata"}

\* C24: the tags parseTagsInput returns, the tags of a loaded record and the
\* tags updateSessionMetadata writes hold no empty tag and no two tags equal
\* ignoring case, each tag given stands in them once, written and placed as
\* where it is given first, and normalizing the result returns it unchanged.
C24_TagsNormalized ==
  state.fn \in TagCalls =>
    /\ \A i \in 1..Len(state.out) : state.out[i] # <<>>
    /\ \A i, j \in 1..Len(state.out) :
         i # j => toLowerCase(state.out[i]) # toLowerCase(state.out[j])
    /\ state.out = FirstOccurrences(TagsGiven)
    /\ normalizeTags(state.out) = state.out
    /\ state.out # <<>> =>
         ApplyUpdates(Payload(Plain(1, None, "d1")),
                      [title |-> Undefined, tags |-> state.out]).tags = state.out

\* C24 witness: a text whose second word repeats the first in another casing
\* yields the first word alone.
C24_Witness ==
  /\ state.fn = "parseTagsInput"
  /\ state.text = <<"x", ",", " ", "X">>
  /\ state.out = << <<"x">> >>

\* The text ends within a word: that word is the fragment being typed.
EndsInWord(text) == text # <<>> /\ text[Len(text)] \notin {" ", ","}

Fragment(text) ==
  IF EndsInWord(text) THEN Words(text)[Len(Words(text))] ELSE <<>>

\* The words typed before the fragment.
TypedEarlier(text) ==
  IF EndsInWord(text) THEN SubSeq(Words(text), 1, Len(Words(text)) - 1)
  ELSE Words(text)

\* C25: getTagSuggestions returns at most limit of the known tags, sorted
\* ignoring case, each beginning with the fragment at the end of the input
\* ignoring case, and none equal, ignoring case, to a tag typed earlier in
\* the input, also when the fragment is such a tag.
C25_SuggestionsExcludeTyped ==
  state.fn = "getTagSuggestions" =>
    /\ Len(state.out) <= state.limit
    /\ \A i \in 1..Len(state.out) :
         /\ state.out[i] \in Range(state.allTags)
         /\ startsWith(toLowerCase(state.out[i]),
                       toLowerCase(Fragment(state.input)))
         /\ \A k \in 1..Len(TypedEarlier(state.input)) :
              toLowerCase(state.out[i])
                # toLowerCase(TypedEarlier(state.input)[k])
    /\ \A i, j \in 1..Len(state.out) :
         i < j => localeCompare(toLowerCase(state.out[i]),
                                toLowerCase(state.out[j])) <= 0

\* The lines that yield a message text that is not empty, and their texts.
Yields(line) ==
  /\ line.json = "object"
  /\ line.payload.kind = "object"
  /\ extractMessageText(line.payload) # <<>>

MessageTexts(lines) ==
  LET RECURSIVE From(_)
      From(i) == IF i > Len(lines) THEN <<>>
                 ELSE (IF Yields(lines[i])
                         THEN <<extractMessageText(lines[i].payload)>>
                         ELSE <<>>) \o From(i + 1)
  IN From(1)

\* out is text, or text cut to at most n characters: its first n characters,
\* or fewer of them and an ellipsis.
IsCut(out, text, n) ==
  /\ Len(out) <= n
  /\ IF Len(text) <= n THEN out = text
     ELSE \/ out = SubSeq(text, 1, n)
          \/ /\ n > 3
             /\ out = SubSeq(text, 1, n - 3) \o <<".", ".", ".">>

\* C26: readMessagePreviews returns null exactly when no line of the file
\* yields a message text that is not empty; otherwise it returns the text of
\* the first such line as first and of the last such line as last, each cut
\* to at most the character budget.
C26_FirstAndLastMessage ==
  state.fn = "readMessagePreviews" =>
    LET texts == MessageTexts(state.lines)
    IN IF texts = <<>> THEN state.out.ret = "null"
       ELSE /\ state.out.ret = "previews"
            /\ IsCut(state.out.first, texts[1], state.maxChars)
            /\ IsCut(state.out.last, texts[Len(texts)], state.maxChars)

\* What a part gives: the first of its fields text, input_text, output_text
\* that holds a string that is not empty.
Contribution(part) ==
  LET Fields == <<part.text, part.input_text, part.output_text>>
      Full == {k \in 1..3 : Fields[k] # Undefined /\ Fields[k] # <<>>}
  IN IF Full = {} THEN <<>>
     ELSE Fields[CHOOSE k \in Full : \A j \in Full : k <= j]

\* C27: the text of a message is made of what its parts give, each part its
\* first field in the order text, input_text, output_text that is not empty,
\* joined by single spaces, white space collapsed and trimmed.
C27_FirstNonEmptyField ==
  (state.fn = "extractMessageText" /\ state.payload.type = "message"
     /\ state.payload.content # NotArray) =>
    LET content == state.payload.content
        Gives(part) == part.kind = "object" /\ Contribution(part) # <<>>
        giving == SelectSeq(content, Gives)
    IN state.out = normalizeWhitespace(
                     join([i \in 1..Len(giving) |-> Contribution(giving[i])],
                          <<" ">>))

\* ------------------------------------------- claims on the keys of the list
Normal(st) == st.inputState = NoInput /\ ~st.showHelp

LastIndex(st) == Max(0, Len(st.filtered) - 1)

\* C28: in Normal mode the key n moves the focus down and the key p moves it
\* up, by a page of at least one record, no further than the last and the
\* first record.
C28_PageKeys ==
  (proc.running /\ Normal(state)) =>
    /\ state.selectedIndex < LastIndex(state)
         => AfterKey(state, "n").state.selectedIndex
              \in (state.selectedIndex + 1)..LastIndex(state)
    /\ state.selectedIndex > 0
         => AfterKey(state, "p").state.selectedIndex
              \in 0..(state.selectedIndex - 1)

\* The search prompt opened, the query typed and committed with Enter.
RECURSIVE Typed(_, _)
Typed(st, texts) ==
  IF texts = <<>> THEN st
  ELSE Typed(AfterKey(st, Head(texts)).state, Tail(texts))

SearchFor(st, query) == Typed(st, <<"/">> \o query \o <<"\r">>)

FocusWithinList(st) ==
  0 <= st.selectedIndex /\ st.selectedIndex <= LastIndex(st)

\* C30: in every reachable state 0 <= selectedIndex <= max(0, number of
\* filtered records - 1), after any navigation keys, filter and sort toggles
\* and refreshes, and after a search committed in any such state.
C30_FocusWithinList ==
  proc.running =>
    /\ FocusWithinList(state)
    /\ Normal(state) =>
         \A query \in {<<>>, <<"g">>, <<"v">>, <<"x">>} :
           FocusWithinList(SearchFor(state, query))

\* C30 witness: the focus is on the second of two records, and a search that
\* keeps one of them is committed: the focus is on that record.
C30_Witness ==
  /\ proc.running /\ Normal(state)
  /\ Len(state.filtered) = 2
  /\ state.selectedIndex = 1
  /\ Len(SearchFor(state, <<"g">>).filtered) = 1
  /\ SearchFor(state, <<"g">>).selectedIndex = 0
  /\ SearchFor(state, <<"g">>).searchQuery = <<"g">>

\* --------------------------------------------------- claims on the process
\* C29: once the process has ended, by the quit key, by Ctrl-C, by an error
\* that main() lets out (at startup or later), the cursor is visible and
\* stdin is out of raw mode; without a terminal the process never enters raw
\* mode and ends with a status that is not 0.
C29_TerminalRestored ==
  /\ ~proc.running => ~proc.cursorHidden /\ ~proc.rawMode
  /\ ~proc.isTTY => /\ ~proc.rawMode
                    /\ ~proc.running => proc.exitCode # 0

\* C29 witness: loadSessions rejected at startup, raw mode entered before:
\* the process has ended with 1.
C29_Witness ==
  /\ ~proc.running /\ proc.isTTY /\ proc.exitCode = 1
  /\ LoadRejects(disk)
  /\ keys = 0

\* ------------------------------------------------- claims on the list window
\* C31: for a view of at least one row and a focus within the list, the
\* window [start, end) lies within the list, is min(length, view) long and
\* holds the focus; in a list longer than the view its start is the focus
\* less half the view (rounded down), kept within [0, length - view].
C31_WindowHoldsFocus ==
  state.fn = "getListWindow" =>
    LET start == state.out[1]
        end == state.out[2]
        length == state.listLength
        view == state.viewSize
        focus == state.selectedIndex
        wanted == focus - (view \div 2)
    IN /\ 0 <= start /\ end <= length
       /\ end - start = (IF length <= view THEN length ELSE view)
       /\ length > 0 => (start <= focus /\ focus < end)
       /\ length > view =>
            start = (IF wanted < 0 THEN 0
                     ELSE IF wanted > length - view THEN length - view
                     ELSE wanted)

\* C31 witness: the list of 100 with a view of 10 and the focus on 95 is
\* shown from 90 to its end.
C31_Witness ==
  /\ state.fn = "getListWindow"
  /\ state.listLength = 100 /\ state.viewSize = 10 /\ state.selectedIndex = 95
  /\ state.out = <<90, 100>>

\* ------------------------------------------------ claims on the detail cache
\* C32: once the detail cache holds an entry for a path, a preview or null,
\* no step removes it or puts another value in its place, and no step starts
\* a preview read for that path.
C32_CacheEntriesPersist ==
  [][\A path \in Paths :
       state.detailCache[path] # NoEntry =>
         /\ state'.detailCache[path] = state.detailCache[path]
         /\ InFlight(loads', path) <= InFlight(loads, path)]_vars

\* -------------------------------------------- claims on the filtered list
NextScope(scope) ==
  CASE scope = "active" -> "archived"
    [] scope = "archived" -> "all"
    [] OTHER -> "active"

\* The filtered list holds the records of the session list that are in the
\* scope and match the search, each once.
FilteredUnder(st) ==
  LET Pass(session) == /\ InScope(session, st.archiveFilter)
                       /\ Matches(session, Stripped(st.searchQuery))
  IN IsPermutation(st.filtered, Passing(st.sessions, Pass))

\* C33: the scope is active until a key is pressed; in Normal mode the filter
\* key takes active to archived, archived to all and all to active, so three
\* presses restore the scope, and after each press the filtered list holds
\* the records of the session list that pass under the new scope.
C33_ScopeCycles ==
  /\ (proc.running /\ keys = 0) => state.archiveFilter = "active"
  /\ (proc.running /\ Normal(state)) =>
       LET once == AfterKey(state, "f").state
           twice == AfterKey(once, "f").state
           thrice == AfterKey(twice, "f").state
       IN /\ once.archiveFilter = NextScope(state.archiveFilter)
          /\ twice.archiveFilter = NextScope(once.archiveFilter)
          /\ thrice.archiveFilter = state.archiveFilter
          /\ once.sessions = state.sessions /\ thrice.sessions = state.sessions
          /\ FilteredUnder(once) /\ FilteredUnder(twice) /\ FilteredUnder(thrice)

\* C33 witness: two active records are listed, the scope is archived and the
\* list is empty; the next two presses show both records again.
C33_Witness ==
  /\ proc.running /\ Normal(state)
  /\ state.archiveFilter = "archived"
  /\ Len(state.sessions) = 2 /\ state.filtered = <<>>
  /\ Len(AfterKey(state, "f").state.filtered) = 2
  /\ AfterKey(AfterKey(state, "f").state, "f").state.archiveFilter = "active"

\* ------------------------------------------------ claims on the text typed
\* The characters that can be typed, one key press each; one of them lies
\* beyond the basic plane.
TypedChars == {"x", "X", "a", "t", ",", " ", "h", "q", "U+1F600"}

Value(st) == st.inputState.value

\* The value without the fragment at its end.
BeforeFragment(value) ==
  SubSeq(value, 1, Len(value) - Len(Fragment(value)))

\* C34: in TextEntry a printable character is appended to the value, and
\* backspace then removes exactly that character again; a character that is
\* not printable leaves the value as it is; backspace removes the last
\* character and leaves the empty value empty; Tab changes the value only
\* in tags mode with a suggestion, where the fragment at the end gives way to
\* the first suggestion and all before it stays.
C34_TextEditing ==
  (proc.running /\ TextEntry(state)) =>
    LET value == Value(state)
        suggestions == getTagSuggestions(value, tagIndex(state),
                                         TAG_SUGGESTION_LIMIT)
        tabbed == AfterKey(state, "\t").state
    IN /\ \A char \in TypedChars :
            LET typed == AfterKey(state, char).state
            IN /\ TextEntry(typed)
               /\ Len(Value(typed)) > Len(value)
               /\ SubSeq(Value(typed), 1, Len(value)) = value
               /\ Value(AfterKey(typed, "DEL").state) = value
       /\ Value(AfterKey(state, "^A").state) = value
       /\ Value(AfterKey(state, "DEL").state)
            = SubSeq(value, 1, Max(0, Len(value) - 1))
       /\ TextEntry(tabbed)
       /\ Value(tabbed) =
            (IF state.inputState.kind = "tags" /\ suggestions # <<>>
               THEN BeforeFragment(value) \o suggestions[1]
               ELSE value)

\* ------------------------------------------------ claims on the list shown
InSync(st) ==
  st.filtered = sortSessionsByDate(
                  filterSessions(st.sessions, st.searchQuery, st.archiveFilter),
                  st.sortOrder)

\* C35: in every reachable state the filtered list is the session list
\* filtered by the search query and the scope and sorted in the sort order:
\* after refreshes, scope and sort toggles, and after a search typed after
\* the current query and committed in any such state, and the toggles
\* pressed after it.
C35_FilteredInSync ==
  proc.running =>
    /\ InSync(state)
    /\ Normal(state) =>
         \A query \in {<<"g">>, <<"x">>} :
           LET found == SearchFor(state, query)
           IN /\ found.searchQuery = state.searchQuery \o query
              /\ InSync(found)
              /\ InSync(AfterKey(found, "f").state)
              /\ InSync(AfterKey(found, "s").state)

\* C35 witness: two records are listed oldest first, the reverse of the
\* order loaded, and the search for g leaves one of them.
C35_Witness ==
  /\ proc.running /\ Normal(state)
  /\ state.sortOrder = "asc"
  /\ Len(state.filtered) = 2
  /\ state.filtered # state.sessions
  /\ Len(SearchFor(state, <<"g">>).filtered) = 1
  /\ AfterKey(state, "s").state.filtered = Reverse(state.filtered)

\* ------------------------------------------------ claims on the detail pane
\* C36: whenever detailState.loading is set, detailState.filePath is a path,
\* the detail cache has no entry for it and a preview read of it is in
\* flight.
C36_LoadingMeansReading ==
  (proc.running /\ state.detailState.loading) =>
    /\ state.detailState.filePath # NoPath
    /\ state.detailCache[state.detailState.filePath] = NoEntry
    /\ InFlight(loads, state.detailState.filePath) > 0

\* C36 witness: the pane is loading the focused record while the read of the
\* record focused before it is still in flight.
C36_Witness ==
  /\ proc.running /\ state.detailState.loading
  /\ currentSession(state).filePath = state.detailState.filePath
  /\ InFlight(loads, state.detailState.filePath) > 0
  /\ \E path \in Paths \ {state.detailState.filePath} :
       InFlight(loads, path) > 0

\* C37: a preview read that fails leaves the null entry for its path,
\* whichever record is focused; from then on the entry stays null, no read
\* of the path is started, and the pane of the record with that path shows
\* "(no preview available)".
C37_FailedLoadIsFinal ==
  [][\A path \in Paths :
       /\ ( /\ proc.running
            /\ ~Exists(disk, path)
            /\ loads'[[path |-> path, got |-> 0]]
                 < loads[[path |-> path, got |-> 0]] )
            => state'.detailCache[path] = NullPreview
       /\ state.detailCache[path] = NullPreview =>
            /\ state'.detailCache[path] = NullPreview
            /\ InFlight(loads', path) <= InFlight(loads, path)
            /\ (state'.showDetails /\ currentSession(state').filePath = path)
                 => DetailPane(state') = <<"(no preview available)">>]_vars

\* ------------------------------------------------ claims on the selection
\* The selected paths that are not in the filtered list.
Hidden(st) == st.selectedPaths \ VisiblePaths(st)

\* C38: in Normal mode select-all selects every visible record and invert
\* flips every visible record, both leaving the selected paths outside the
\* filtered list as they were; invert twice restores the selection;
\* select-all then invert leaves no visible record selected; clear empties
\* the selection, the paths outside the filtered list included.
C38_SelectionKeys ==
  (proc.running /\ Normal(state)) =>
    LET all == AfterKey(state, "A").state
        inverted == AfterKey(state, "I").state
        twice == AfterKey(inverted, "I").state
        none == AfterKey(all, "I").state
        cleared == AfterKey(state, "C").state
    IN /\ VisiblePaths(state) \subseteq all.selectedPaths
       /\ Hidden(all) = Hidden(state)
       /\ \A path \in VisiblePaths(state) :
            path \in inverted.selectedPaths <=> path \notin state.selectedPaths
       /\ Hidden(inverted) = Hidden(state)
       /\ twice.selectedPaths = state.selectedPaths
       /\ none.selectedPaths \cap VisiblePaths(state) = {}
       /\ Hidden(none) = Hidden(state)
       /\ cleared.selectedPaths = {}
       /\ \A after \in {all, inverted, twice, none, cleared} :
            after.filtered = state.filtered

\* C38 witness: a selected path is outside the filtered list, and of the
\* visible records one is selected and one is not.
C38_Witness ==
  /\ proc.running /\ Normal(state)
  /\ Hidden(state) # {}
  /\ VisiblePaths(state) \cap state.selectedPaths # {}
  /\ VisiblePaths(state) \ state.selectedPaths # {}

\* ------------------------------------------------ claims on archive races
\* An archive operation on one record: the archive key, or the bulk key with
\* that record alone selected.
ArchiveOf(op) ==
  /\ op # NoOp
  /\ op.kind \in {"archive", "bulk"}
  /\ op.kind = "bulk" => op.total = 1

\* Its setArchiveStatus call returned: the operation moved the file.
Moved(op) ==
  /\ ArchiveOf(op)
  /\ op.pc = "scan"
  /\ op.kind = "bulk" => op.archivedCount + op.restoredCount = 1

\* Two operations in flight on the same record.
Overlapping(i, j) ==
  /\ i # j
  /\ ArchiveOf(ops[i]) /\ ArchiveOf(ops[j])
  /\ ops[i].session = ops[j].session

\* A file of that name is in the archive tree (archived) or in the sessions
\* tree (not archived).
InTree(d, name, archived) ==
  \E path \in Paths :
    Exists(d, path) /\ path.name = name /\ (path.dir = ARCH) = archived

\* C39: of two archive operations in flight on the same record at most one
\* moves the file; once one has moved it, the file is in the opposite tree
\* and no longer at its old path while they overlap, and the call of the
\* other ends as a caught failure: the disk is as it was, the program runs
\* on, and the failure is shown as the status (archive key) or counted as
\* failed (bulk key).
C39_OverlappingArchiveMovesOnce ==
  /\ [](\A i, j \in OpIds : (proc.running /\ Overlapping(i, j)) =>
          /\ ~(Moved(ops[i]) /\ Moved(ops[j]))
          /\ Moved(ops[i]) =>
               /\ InTree(disk, ops[i].session.fileName,
                         ~ops[i].session.archived)
               /\ ~Exists(disk, ops[i].session.filePath))
  /\ [][\A i, j \in OpIds :
          ( /\ proc.running /\ Overlapping(i, j)
            /\ Moved(ops[i])
            /\ ops[j].pc = "call"
            /\ ops'[j] # ops[j]
            /\ ops'[j] = NoOp \/ ops'[j].pc # "call" ) =>
            /\ disk' = disk
            /\ proc'.running
            /\ IF ops[j].kind = "archive"
                 THEN /\ ops'[j] = NoOp
                      /\ state'.statusMessage
                           \in {Status("ENOENT"), Status("already exists")}
                      /\ painted'
                 ELSE /\ ops'[j].pc = "scan"
                      /\ ops'[j].failed = 1
                      /\ ops'[j].archivedCount + ops'[j].restoredCount = 0]_vars

\* C39 witness: the archive key has moved the record and the bulk key on the
\* same record, pressed before the refresh completed, has counted a failure.
C39_Witness ==
  \E i, j \in OpIds :
    /\ proc.running /\ Overlapping(i, j)
    /\ ops[i].kind = "archive" /\ Moved(ops[i])
    /\ ops[j].kind = "bulk" /\ ops[j].pc = "scan" /\ ops[j].failed = 1

====
